---------------------------- MODULE Spec2Model ----------------------------
(***************************************************************************)
(* Model of the presage command bus (src/src/command_bus.rs) and of the    *)
(* configuration it is built from (src/src/configuration.rs).              *)
(*                                                                         *)
(* CommandBus::execute is an async function: the model follows it from one *)
(* await point to the next.  Handlers and writers are application code:    *)
(* every invocation draws its outcome (the returned batch, or an error)    *)
(* from a bounded set, and one that returns Ok leaves its mark in the      *)
(* context.                                                                *)
(*                                                                         *)
(* Spec is one execute call; LiveSpec the call awaited to its end;         *)
(* CallsSpec one call after another on one bus; ConcurrentSpec two callers *)
(* of one bus, interleaved; FeedbackSpec an application whose event        *)
(* handler re-emits the command it answers; ConfigurationSpec the chains   *)
(* of registrations that build a Configuration; WriterSpec a bus built     *)
(* from a configuration whose writer was just registered or merged in;     *)
(* DowncastSpec calls whose handlers are generated by #[command_handler];  *)
(* LibrarySpec the functions of the crate that are called outside execute  *)
(* (merging configurations, events, boxed commands, ids); ReconfiguredSpec *)
(* a bus that was configured twice; DecodeSpec SerializedEvent's           *)
(* deserialize, called alone and by a generated event handler.             *)
(*                                                                         *)
(* The example application (src/examples/todo) is modelled with its own    *)
(* commands, events, handlers, writer and context, which are computed and  *)
(* not drawn: AppSpec is TodoApp on the bus that configuration() builds,   *)
(* StoreSpec the same handlers on a bus that also holds TodoEventWriter.   *)
(***************************************************************************)
EXTENDS Integers, Sequences, FiniteSets, TLC

(* ------------------------------ bounds -------------------------------- *)
\* Commands that may enter a pending queue during one behaviour.
MaxCommands == 4
\* Longest batch of events or commands one handler invocation returns.
MaxBatch == 2
\* Events that may be emitted during one behaviour.
MaxEvents == 3
\* Rounds a counting feedback handler re-emits its command for.
MaxRounds == 4
\* Registrations made on one Configuration.
MaxRegistrations == 3
\* Registrations behind a Configuration that is an operand of a merge.
MaxOperand == 2
\* Calls of TodoApp::execute that the caller notes down.
MaxCalls == 3

(* ------------------------- names and objects -------------------------- *)
\* Command::NAME values of the commands the application submits and emits; no
\* handler object serves "C".
CommandNames == {"A", "C"}
\* Event::NAME values.
EventNames == {"e1", "e2"}

\* The &'static dyn CommandHandler objects and CommandHandler::command_name.
CommandHandlerObjects == {"hA", "hA2", "hB"}
command_name(h) ==
    CASE h = "hB" -> "B"
      [] h = "create_todo" -> "create-todo"
      [] h = "rename_todo" -> "rename-todo"
      [] h = "check_todo" -> "check-todo"
      [] h = "archive_todo" -> "archive-done-todo"
      [] h = "delete_archived_todos" -> "delete-archived-todos"
      [] OTHER -> "A"

\* The &'static dyn EventHandler objects and EventHandler::event_names.
EventHandlerObjects == {"g1", "g2"}
handler_event_names(g) ==
    CASE g = "g1" -> <<"e1">>
      [] g = "update_summary_on_todo_created" -> <<"todo-created">>
      [] g = "update_summary_on_todo_updated" -> <<"todo-updated">>
      [] g = "update_summary_on_todo_deleted" -> <<"todo-deleted">>
      [] OTHER -> <<"e1", "e2">>

\* The &'static dyn EventWriter objects and EventWriter::event_names.
EventWriterObjects == {"w1", "w2"}
writer_event_names(w) ==
    CASE w = "w1" -> <<"e1">>
      [] w = "TodoEventWriter" -> <<"todo-created", "todo-updated", "todo-deleted">>
      [] OTHER -> <<"e1", "e2">>

(* --------------------------- std collections -------------------------- *)
EmptyMap == [x \in {} |-> x]

\* HashMap::insert
insert(m, key, v) == [x \in DOMAIN m \cup {key} |-> IF x = key THEN v ELSE m[x]]

\* The entries of n inserted where m has none (entry(..).or_insert(..)): C35
\* rests on extend replacing the entries m has.
map_extend_keeping(m, n) ==
    [x \in DOMAIN m \cup DOMAIN n |-> IF x \in DOMAIN m THEN m[x] ELSE n[x]]

\* HashMap::extend: every entry of n is inserted into m.
map_extend(m, n) ==
    [x \in DOMAIN m \cup DOMAIN n |-> IF x \in DOMAIN n THEN n[x] ELSE m[x]]

\* HashMap::get
get(m, key) == IF key \in DOMAIN m THEN <<m[key]>> ELSE <<>>

(* ---------------------------- Configuration --------------------------- *)
\* Configuration::new
Configuration_new ==
    [command_handlers |-> EmptyMap, event_writers |-> EmptyMap,
     event_handlers |-> EmptyMap]

RECURSIVE push_front_for_names(_, _, _)
\* The handler put at the head of each list: C20 rests on the push.
push_front_for_names(map, names, handler) ==
    IF names = <<>> THEN map
    ELSE LET n == Head(names)
             m == IF n \in DOMAIN map
                  THEN [map EXCEPT ![n] = <<handler>> \o @]
                  ELSE insert(map, n, <<handler>>)
         IN push_front_for_names(m, Tail(names), handler)

RECURSIVE push_for_names(_, _, _)
\* The loop of Configuration::event_handler over handler.event_names().
push_for_names(map, names, handler) ==
    IF names = <<>> THEN map
    ELSE LET n == Head(names)
             m == IF n \in DOMAIN map
                  THEN [map EXCEPT ![n] = Append(@, handler)]
                  ELSE insert(map, n, <<handler>>)
         IN push_for_names(m, Tail(names), handler)

\* Configuration::event_handler
event_handler(cfg, handler) ==
    [cfg EXCEPT !.event_handlers =
        push_for_names(@, handler_event_names(handler), handler)]

\* The handler registered only when its name has none (entry().or_insert):
\* C19 rests on HashMap::insert replacing the value.
command_handler_keeping(cfg, handler) ==
    [cfg EXCEPT !.command_handlers =
        IF command_name(handler) \in DOMAIN @ THEN @
        ELSE insert(@, command_name(handler), handler)]

\* Configuration::command_handler
command_handler(cfg, handler) ==
    [cfg EXCEPT !.command_handlers = insert(@, command_name(handler), handler)]

RECURSIVE insert_for_names(_, _, _)
insert_for_names(map, names, writer) ==
    IF names = <<>> THEN map
    ELSE insert_for_names(insert(map, Head(names), writer), Tail(names), writer)

\* Configuration::event_writer: one writer per event name, the later one wins.
event_writer(cfg, writer) ==
    [cfg EXCEPT !.event_writers =
        insert_for_names(@, writer_event_names(writer), writer)]

RECURSIVE extend_occupied_only(_, _)
\* The lists of rhs extend those self has, and a list under a name new to
\* self is dropped (no Entry::Vacant arm): C22 rests on both arms.
extend_occupied_only(map, rhs) ==
    IF DOMAIN rhs = {} THEN map
    ELSE LET event == CHOOSE n \in DOMAIN rhs : TRUE
             rest == [n \in DOMAIN rhs \ {event} |-> rhs[n]]
             m == IF event \in DOMAIN map
                  THEN [map EXCEPT ![event] = @ \o rhs[event]]
                  ELSE map
         IN extend_occupied_only(m, rest)

RECURSIVE extend_lists(_, _)
\* The loop of AddAssign::add_assign over rhs.event_handlers.  Each turn
\* touches the entry of its own name only, so that the order in which the
\* HashMap yields its entries does not show in the result.
extend_lists(map, rhs) ==
    IF DOMAIN rhs = {} THEN map
    ELSE LET event == CHOOSE n \in DOMAIN rhs : TRUE
             rest == [n \in DOMAIN rhs \ {event} |-> rhs[n]]
             m == IF event \in DOMAIN map
                  THEN [map EXCEPT ![event] = @ \o rhs[event]]
                  ELSE insert(map, event, rhs[event])
         IN extend_lists(m, rest)

\* The writers of both sides, those of rhs replacing those of self.
extend_writers(map, rhs) == map_extend(map, rhs)

\* The three maps merged alike, with HashMap::extend: C21 rests on the lists
\* of event handlers being concatenated.
add_assign_replacing(self, rhs) ==
    [command_handlers |-> map_extend(self.command_handlers, rhs.command_handlers),
     event_writers |-> extend_writers(self.event_writers, rhs.event_writers),
     event_handlers |-> map_extend(self.event_handlers, rhs.event_handlers)]

\* AddAssign::add_assign: the value of self after `self += rhs`.
add_assign(self, rhs) ==
    [command_handlers |-> map_extend(self.command_handlers, rhs.command_handlers),
     event_writers |-> extend_writers(self.event_writers, rhs.event_writers),
     event_handlers |-> extend_lists(self.event_handlers, rhs.event_handlers)]

\* Add::add: `self += rhs; self`
add(self, rhs) == add_assign(self, rhs)

RECURSIVE Built(_)
\* The configurations a chain of at most n registrations on
\* Configuration::new() builds.
Built(n) ==
    IF n = 0 THEN {Configuration_new}
    ELSE LET shorter == Built(n - 1)
         IN shorter
            \cup {command_handler(c, h) : c \in shorter, h \in CommandHandlerObjects}
            \cup {event_handler(c, g) : c \in shorter, g \in EventHandlerObjects}
            \cup {event_writer(c, w) : c \in shorter, w \in EventWriterObjects}

\* The partial configurations that modules hand over to be merged.
Operands == Built(MaxOperand)

\* CommandBus::new
CommandBus_new ==
    [command_handlers |-> EmptyMap, event_writers |-> EmptyMap,
     event_handlers |-> EmptyMap]

\* The handlers taken from the configuration and its writers left behind:
\* C23 rests on the writers being copied with the handlers.
configure_without_writers(bus, configuration) ==
    [command_handlers |->
        map_extend(bus.command_handlers, configuration.command_handlers),
     event_writers |-> bus.event_writers,
     event_handlers |->
        map_extend(bus.event_handlers, configuration.event_handlers)]

\* CommandBus::configure
configure(bus, configuration) ==
    [command_handlers |->
        map_extend(bus.command_handlers, configuration.command_handlers),
     event_writers |-> map_extend(bus.event_writers, configuration.event_writers),
     event_handlers |->
        map_extend(bus.event_handlers, configuration.event_handlers)]

\* The configurations the buses under check are built from, as the example
\* application builds its own: a chain of registrations on Configuration::new.
ConfigurationFull ==
    event_writer(
      command_handler(
        command_handler(
          event_handler(event_handler(Configuration_new, "g1"), "g2"),
          "hA"),
        "hB"),
      "w1")

\* No writer, no handler for "e2", and "hA" replaced by "hA2".
ConfigurationSparse ==
    command_handler(
      command_handler(
        command_handler(event_handler(Configuration_new, "g1"), "hA"),
        "hA2"),
      "hB")

Configurations == {ConfigurationFull, ConfigurationSparse}

\* One handler and the writer for "e1", nothing for "e2".
ConfigurationWritten ==
    event_writer(
      command_handler(
        command_handler(event_handler(Configuration_new, "g1"), "hA"),
        "hB"),
      "w1")


(* ------------------------------- state -------------------------------- *)
VARIABLES
    command_handlers,  \* CommandBus.command_handlers: name -> handler
    event_writers,     \* CommandBus.event_writers: name -> writer
    event_handlers,    \* CommandBus.event_handlers: name -> list of handlers
    context,           \* the caller's context: the marks left by invocations
    pc,                \* position of execute: idle, loop, write, fan, done
    commands,          \* execute's pending queue (VecDeque<BoxedCommand>)
    command,           \* the command popped by the current loop iteration
    events,            \* the batch returned by the command's handler
    k,                 \* index in events of the event being dispatched
    j,                 \* index of the next event handler in handle_event
    event_commands,    \* handle_event's local Vec of collected commands
    result,            \* what the last execute call returned
    submitted,         \* name of the command given to the current call
    ctx0,              \* the context as the current call received it
    nextId,            \* ordinal of the next command to enter a queue
    emitted,           \* events emitted so far
    trace,             \* the invocations of the current call, in order
                       \* (while a Configuration is built: the registrations)
    configuration,     \* the Configuration the bus is built from
    other,             \* the registers of the other caller of the bus
    call               \* the library call made outside execute: the
                       \* function, its arguments and what it returned

bus == <<command_handlers, event_writers, event_handlers>>
locals == <<commands, command, events, k, j, event_commands>>
vars == <<command_handlers, event_writers, event_handlers, context, pc,
          commands, command, events, k, j, event_commands, result,
          submitted, ctx0, nextId, emitted, trace, configuration, other,
          call>>

(* ------------------------------- values ------------------------------- *)
\* Result<(), E>: Ok(()), or an error; NoResult before the first return.
NoResult == [kind |-> "None", name |-> ""]
Ok == [kind |-> "Ok", name |-> ""]
\* Error::MissingCommandHandler(command_name)
MissingCommandHandlerError(n) == [kind |-> "MissingCommandHandler", name |-> n]
\* An error of the application's type E, returned by the object `by`.
DomainError(by) == [kind |-> "Domain", name |-> by]

\* A BoxedCommand: its name, and as payload where it comes from (the command
\* and event whose fan-out produced it, the handler, its place in the batch).
BoxedCommand(n, parent, ev, h, pos) ==
    [name |-> n, id |-> 0, parent |-> parent, ev |-> ev, h |-> h, pos |-> pos]
NoCommand == BoxedCommand("", 0, 0, 0, 0)

RECURSIVE SeqsUpTo(_, _)
\* The sequences over S of length at most n.
SeqsUpTo(S, n) ==
    IF n = 0 THEN {<<>>}
    ELSE LET shorter == SeqsUpTo(S, n - 1)
         IN shorter \cup {Append(s, x) : s \in {t \in shorter : Len(t) = n - 1}, x \in S}

\* What an invocation does to the context: one that returns Ok leaves its
\* mark, one that returns Err leaves the context as it found it.
Marks(by, ok) == IF ok THEN {<<by>>} ELSE {<<>>}

\* Outcomes of CommandHandler::handle: Ok(events) or Err(e); at most `room`
\* events, so that at most MaxEvents are emitted.
CommandOutcomes(h, room) ==
    {[ok |-> TRUE, out |-> b, err |-> Ok, mark |-> m] :
        b \in {e \in SeqsUpTo(EventNames, MaxBatch) : Len(e) <= room},
        m \in Marks(h, TRUE)}
    \cup {[ok |-> FALSE, out |-> <<>>, err |-> DomainError(h), mark |-> m] :
        m \in Marks(h, FALSE)}

\* Outcomes of EventWriter::write: Ok(()) or Err(e).
WriterOutcomes(w) ==
    {[ok |-> TRUE, out |-> <<>>, err |-> Ok, mark |-> m] : m \in Marks(w, TRUE)}
    \cup {[ok |-> FALSE, out |-> <<>>, err |-> DomainError(w), mark |-> m] :
        m \in Marks(w, FALSE)}

\* Outcomes of EventHandler::handle: Ok(commands) or Err(e); at most `room`
\* commands, so that at most MaxCommands enter a queue.
EventOutcomes(g, room) ==
    {[ok |-> TRUE, out |-> b, err |-> Ok, mark |-> m] :
        b \in {c \in SeqsUpTo(CommandNames, MaxBatch) : Len(c) <= room},
        m \in Marks(g, TRUE)}
    \cup {[ok |-> FALSE, out |-> <<>>, err |-> DomainError(g), mark |-> m] :
        m \in Marks(g, FALSE)}

\* One invocation, as recorded in the trace: the object invoked, the name it
\* was looked up under, the command c being processed (with the command its
\* originating event belongs to), the event's index in that command's batch,
\* the handler's index in the event's list, and the outcome.
Invocation(kind, by, n, c, e, h, o) ==
    [kind |-> kind, by |-> by, name |-> n, cmd |-> c.id, parent |-> c.parent,
     ev |-> e, h |-> h, ok |-> o.ok, out |-> o.out, mark |-> o.mark]

(* -------------------------------- events ------------------------------ *)
\* Result<T, Error>::Ok(x)
OkOf(x) == [kind |-> "Ok", value |-> x]
\* serde_json::Error, with its message
JsonError(why) == [kind |-> "serde_json::Error", name |-> why]
\* Error::SerializationError(#[from] serde_json::Error)
SerializationError(e) == [kind |-> "SerializationError", name |-> e.name]

\* serde_json::Value
Value_Null == [kind |-> "Null"]
Value_Number(n) == [kind |-> "Number", n |-> n]
Value_String(str) == [kind |-> "String", str |-> str]
Value_Array(items) == [kind |-> "Array", items |-> items]
Value_Object(map) == [kind |-> "Object", map |-> map]

\* The raw ids of the example's aggregate (type Id = Uuid) and the text
\* Uuid's Serialize writes for each.
Uuids == {1, 2, 3}
UuidText ==
    <<"00000000-0000-0000-0000-000000000001",
      "00000000-0000-0000-0000-000000000002",
      "00000000-0000-0000-0000-000000000003">>
\* Contents of the String fields: a plain name, and one that reads as a Uuid.
Strings == {"milk", UuidText[1]}

\* Id<A>(pub A::Id)
Id(raw) == [raw |-> raw]
Ids == {Id(u) : u \in Uuids}

\* time::OffsetDateTime values: two days of one year, at midnight UTC.
OffsetDateTimes == {[year |-> 2024, ordinal |-> d] : d \in {1, 2}}

\* std::time::SystemTime values: before the epoch, at it, after it.
SystemTimes ==
    {[earlier |-> TRUE, secs |-> 1, nanos |-> 0],
     [earlier |-> FALSE, secs |-> 0, nanos |-> 0],
     [earlier |-> FALSE, secs |-> 1, nanos |-> 0]}

\* The event types: those of the example, and the SystemStarted of the
\* Event trait's documentation holding a std::time::SystemTime, whose
\* Serialize returns an error for a time before the epoch.
EventTypes == {"TodoCreated", "TodoUpdated", "TodoDeleted", "SystemStarted"}
TodoCreated(id, name) == [type |-> "TodoCreated", id |-> id, name |-> name]
TodoUpdated_Renamed(id, old_name, new_name) ==
    [type |-> "TodoUpdated", variant |-> "Renamed", id |-> id,
     old_name |-> old_name, new_name |-> new_name]
TodoUpdated_Done(id, date) ==
    [type |-> "TodoUpdated", variant |-> "Done", id |-> id, date |-> date]
TodoUpdated_Archived(id, done_date, archived_date) ==
    [type |-> "TodoUpdated", variant |-> "Archived", id |-> id,
     done_date |-> done_date, archived_date |-> archived_date]
TodoDeleted(id) == [type |-> "TodoDeleted", id |-> id]
SystemStarted(time) == [type |-> "SystemStarted", time |-> time]

\* The values of an event type.
ValuesOf(T) ==
    CASE T = "TodoCreated" -> {TodoCreated(i, n) : i \in Ids, n \in Strings}
      [] T = "TodoUpdated" ->
            {TodoUpdated_Renamed(i, o, n) : i \in Ids, o \in Strings, n \in Strings}
            \cup {TodoUpdated_Done(i, d) : i \in Ids, d \in OffsetDateTimes}
            \cup {TodoUpdated_Archived(i, d, a) :
                     i \in Ids, d \in OffsetDateTimes, a \in OffsetDateTimes}
      [] T = "TodoDeleted" -> {TodoDeleted(i) : i \in Ids}
      [] T = "SystemStarted" -> {SystemStarted(t) : t \in SystemTimes}
EventValues == UNION {ValuesOf(T) : T \in EventTypes}

\* Event::NAME as derive(Event) sets it: the type's name in kebab case.
NAME(T) ==
    CASE T = "TodoCreated" -> "todo-created"
      [] T = "TodoUpdated" -> "todo-updated"
      [] T = "TodoDeleted" -> "todo-deleted"
      [] T = "SystemStarted" -> "system-started"

\* Id's Serialize: that of the wrapped id, a Uuid, which writes its text.
Id_serialize(id) == Value_String(UuidText[id.raw])

\* OffsetDateTime's Serialize in its compact form: the sequence of the date's
\* components (the year and the day of the year; the time of day and the
\* offset, all zero here, are left out).
OffsetDateTime_serialize(date) ==
    Value_Array(<<Value_Number(date.year), Value_Number(date.ordinal)>>)

\* serde_json::to_value through the derived Serialize: a struct is an object
\* of its fields, a newtype struct is its content, a variant is an object
\* of the variant's name, holding an object of its fields (struct variant)
\* or an array of them (tuple variant).
to_value(x) ==
    CASE x.type = "TodoCreated" ->
            OkOf(Value_Object([id |-> Id_serialize(x.id),
                               name |-> Value_String(x.name)]))
      [] x.type = "TodoUpdated" /\ x.variant = "Renamed" ->
            OkOf(Value_Object(
                [Renamed |-> Value_Object([id |-> Id_serialize(x.id),
                                           old_name |-> Value_String(x.old_name),
                                           new_name |-> Value_String(x.new_name)])]))
      [] x.type = "TodoUpdated" /\ x.variant = "Done" ->
            OkOf(Value_Object(
                [Done |-> Value_Array(<<Id_serialize(x.id),
                                        OffsetDateTime_serialize(x.date)>>)]))
      [] x.type = "TodoUpdated" /\ x.variant = "Archived" ->
            OkOf(Value_Object(
                [Archived |-> Value_Object(
                    [id |-> Id_serialize(x.id),
                     done_date |-> OffsetDateTime_serialize(x.done_date),
                     archived_date |-> OffsetDateTime_serialize(x.archived_date)])]))
      [] x.type = "TodoDeleted" -> OkOf(Id_serialize(x.id))
      [] x.type = "SystemStarted" ->
            IF x.time.earlier
            THEN JsonError("SystemTime must be later than UNIX_EPOCH")
            ELSE OkOf(Value_Object(
                    [secs_since_epoch |-> Value_Number(x.time.secs),
                     nanos_since_epoch |-> Value_Number(x.time.nanos)]))

\* SerializedEvent { name, value }
SerializedEvent(name, value) == [name |-> name, value |-> value]

\* The event's name stored as its value (to_value(Self::NAME)): C24 rests on
\* the value being the event's own.
serialize_name(x) == OkOf(SerializedEvent(NAME(x.type), Value_String(NAME(x.type))))

\* Event::serialize
serialize(x) ==
    LET value == to_value(x)
    IN IF value.kind = "Ok"
       THEN OkOf(SerializedEvent(NAME(x.type), value.value))
       ELSE SerializationError(value)

\* Uuid's Deserialize, then .map(Id): a string that reads as a Uuid.
Id_deserialize(v) ==
    IF v.kind # "String" THEN JsonError("invalid type")
    ELSE IF \E u \in Uuids : UuidText[u] = v.str
         THEN OkOf(Id(CHOOSE u \in Uuids : UuidText[u] = v.str))
         ELSE JsonError("UUID parsing failed")

\* String's Deserialize
String_deserialize(v) ==
    IF v.kind = "String" THEN OkOf(v.str) ELSE JsonError("invalid type")

\* u64's and u32's Deserialize
Number_deserialize(v) ==
    IF v.kind = "Number" THEN OkOf(v.n) ELSE JsonError("invalid type")

\* OffsetDateTime's Deserialize: the sequence of the date's components.
OffsetDateTime_deserialize(v) ==
    IF v.kind # "Array" THEN JsonError("invalid type")
    ELSE IF Len(v.items) # 2 THEN JsonError("invalid length")
    ELSE LET year == Number_deserialize(v.items[1])
             ordinal == Number_deserialize(v.items[2])
         IN IF year.kind # "Ok" THEN year
            ELSE IF ordinal.kind # "Ok" THEN ordinal
            ELSE IF ordinal.value \in 1..366
                 THEN OkOf([year |-> year.value, ordinal |-> ordinal.value])
                 ELSE JsonError("invalid value")

\* The values of the named fields as a derived struct visitor receives them
\* from a Value: an object's entries under these names (the others are
\* ignored), or an array's elements, which must be exactly as many.
struct_fields(v, names) ==
    CASE v.kind = "Object" ->
            IF \A i \in 1..Len(names) : names[i] \in DOMAIN v.map
            THEN OkOf([i \in 1..Len(names) |-> v.map[names[i]]])
            ELSE JsonError("missing field")
      [] v.kind = "Array" ->
            IF Len(v.items) = Len(names) THEN OkOf(v.items)
            ELSE JsonError("invalid length")
      [] OTHER -> JsonError("invalid type")

\* The first error among the results, or none.
first_error(results) ==
    IF \E i \in 1..Len(results) : results[i].kind # "Ok"
    THEN <<results[CHOOSE i \in 1..Len(results) :
                      /\ results[i].kind # "Ok"
                      /\ \A h \in 1..(i - 1) : results[h].kind = "Ok"]>>
    ELSE <<>>

\* serde_json::from_value::<T> through the derived Deserialize.
from_value(T, v) ==
    CASE T = "TodoCreated" ->
            LET f == struct_fields(v, <<"id", "name">>)
            IN IF f.kind # "Ok" THEN f
               ELSE LET id == Id_deserialize(f.value[1])
                        name == String_deserialize(f.value[2])
                        e == first_error(<<id, name>>)
                    IN IF e # <<>> THEN e[1]
                       ELSE OkOf(TodoCreated(id.value, name.value))
      [] T = "TodoUpdated" ->
            IF v.kind # "Object" THEN JsonError("invalid type")
            ELSE IF Cardinality(DOMAIN v.map) # 1
                 THEN JsonError("expected a map with a single key")
            ELSE IF DOMAIN v.map = {"Renamed"}
            THEN LET f == struct_fields(v.map["Renamed"],
                                        <<"id", "old_name", "new_name">>)
                 IN IF f.kind # "Ok" THEN f
                    ELSE LET id == Id_deserialize(f.value[1])
                             old == String_deserialize(f.value[2])
                             new == String_deserialize(f.value[3])
                             e == first_error(<<id, old, new>>)
                         IN IF e # <<>> THEN e[1]
                            ELSE OkOf(TodoUpdated_Renamed(id.value, old.value,
                                                          new.value))
            ELSE IF DOMAIN v.map = {"Done"}
            THEN LET t == v.map["Done"]
                 IN IF t.kind # "Array" THEN JsonError("invalid type")
                    ELSE IF Len(t.items) # 2 THEN JsonError("invalid length")
                    ELSE LET id == Id_deserialize(t.items[1])
                             date == OffsetDateTime_deserialize(t.items[2])
                             e == first_error(<<id, date>>)
                         IN IF e # <<>> THEN e[1]
                            ELSE OkOf(TodoUpdated_Done(id.value, date.value))
            ELSE IF DOMAIN v.map = {"Archived"}
            THEN LET f == struct_fields(v.map["Archived"],
                                        <<"id", "done_date", "archived_date">>)
                 IN IF f.kind # "Ok" THEN f
                    ELSE LET id == Id_deserialize(f.value[1])
                             done == OffsetDateTime_deserialize(f.value[2])
                             archived == OffsetDateTime_deserialize(f.value[3])
                             e == first_error(<<id, done, archived>>)
                         IN IF e # <<>> THEN e[1]
                            ELSE OkOf(TodoUpdated_Archived(id.value, done.value,
                                                           archived.value))
            ELSE JsonError("unknown variant")
      [] T = "TodoDeleted" ->
            LET id == Id_deserialize(v)
            IN IF id.kind # "Ok" THEN id ELSE OkOf(TodoDeleted(id.value))
      [] T = "SystemStarted" ->
            IF v.kind = "Object"
               /\ DOMAIN v.map \ {"secs_since_epoch", "nanos_since_epoch"} # {}
            THEN JsonError("unknown field")
            ELSE LET f == struct_fields(v, <<"secs_since_epoch",
                                             "nanos_since_epoch">>)
                 IN IF f.kind # "Ok" THEN f
                    ELSE LET secs == Number_deserialize(f.value[1])
                             nanos == Number_deserialize(f.value[2])
                             e == first_error(<<secs, nanos>>)
                         IN IF e # <<>> THEN e[1]
                            ELSE OkOf(SystemStarted(
                                    [earlier |-> FALSE, secs |-> secs.value,
                                     nanos |-> nanos.value]))

\* The value decoded only for an event that has T's name: C36 rests on the
\* name not being looked at.
deserialize_named(T, event) ==
    LET value == from_value(T, event.value)
    IN IF event.name # NAME(T)
       THEN SerializationError(JsonError("unexpected event name"))
       ELSE IF value.kind = "Ok" THEN OkOf(value.value)
       ELSE SerializationError(value)

\* A value of T whatever is stored (from_value(..).unwrap_or_default()): C25
\* rests on the `?` that returns the error.
deserialize_or_default(T, event) ==
    LET value == from_value(T, event.value)
    IN IF value.kind = "Ok" THEN OkOf(value.value)
       ELSE OkOf(CHOOSE x \in ValuesOf(T) : TRUE)

\* SerializedEvent::deserialize::<T>
deserialize(T, event) ==
    LET value == from_value(T, event.value)
    IN IF value.kind = "Ok" THEN OkOf(value.value)
       ELSE SerializationError(value)

\* The values a SerializedEvent may hold: what Event::serialize stores, the
\* same with an entry removed or added, the fields in an array, and scalars.
Stored ==
    LET sent == {serialize(x).value.value :
                    x \in {y \in EventValues : serialize(y).kind = "Ok"}}
        objects == {v \in sent : v.kind = "Object"}
        less == {Value_Object([n \in DOMAIN o.map \ {d} |-> o.map[n]]) :
                    o \in objects, d \in {"id", "nanos_since_epoch"}}
        more == {Value_Object(insert(o.map, "extra", Value_Null)) : o \in objects}
        arrays == {Value_Array(<<Id_serialize(i), Value_String(n)>>) :
                      i \in Ids, n \in Strings}
                  \cup {Value_Array(<<Id_serialize(i)>>) : i \in Ids}
        scalars == {Value_Null, Value_Number(0), Value_String("milk")}
    IN sent \cup less \cup more \cup arrays \cup scalars

\* The serialized events handed to deserialize, under any name.
SerializedEvents ==
    {SerializedEvent(NAME(T), v) : T \in EventTypes, v \in Stored}

\* Events::new
Events_new == <<>>

\* The event put at the head of the Vec (insert(0, ..)): C29 rests on push.
Events_add_front(self, x) ==
    LET serialized == serialize(x)
    IN IF serialized.kind = "Ok"
       THEN [self |-> <<serialized.value>> \o self, result |-> Ok]
       ELSE [self |-> self, result |-> serialized]

\* Events::add: self after the call, and what the call returned.
Events_add(self, x) ==
    LET serialized == serialize(x)
    IN IF serialized.kind = "Ok"
       THEN [self |-> Append(self, serialized.value), result |-> Ok]
       ELSE [self |-> self, result |-> serialized]

RECURSIVE into_iter(_)
\* IntoIterator for Events: the items that next() yields, one after another,
\* until the Vec's iterator is empty.
into_iter(self) ==
    IF self = <<>> THEN <<>>
    ELSE <<Head(self)>> \o into_iter(Tail(self))

(* --------------------------------- ids -------------------------------- *)
\* Two aggregate types: the example's Todo, whose Id is a Uuid (Eq, Ord and
\* Hash), and one whose Id is an f64, which has PartialEq and PartialOrd
\* only.  An f64 is a number or NaN.
Aggregates == {"Todo", "Reading"}
Floats ==
    {[nan |-> TRUE, n |-> 0], [nan |-> FALSE, n |-> 1], [nan |-> FALSE, n |-> 2]}
\* The values of A::Id, and of Id<A>.
RawIds(A) == IF A = "Todo" THEN Uuids ELSE Floats
IdsOf(A) == {Id(raw) : raw \in RawIds(A)}

\* Ordering of two numbers.
Ordering(m, n) == IF m < n THEN "Less" ELSE IF m = n THEN "Equal" ELSE "Greater"

\* A::Id's PartialEq::eq: NaN is equal to nothing.
raw_eq(A, a, b) ==
    IF A = "Todo" THEN a = b
    ELSE ~a.nan /\ ~b.nan /\ a.n = b.n

\* A::Id's PartialOrd::partial_cmp: None when either side is NaN.
raw_partial_cmp(A, a, b) ==
    IF A = "Todo" THEN <<Ordering(a, b)>>
    ELSE IF a.nan \/ b.nan THEN <<>> ELSE <<Ordering(a.n, b.n)>>

\* Uuid's Ord::cmp
raw_cmp(A, a, b) == Ordering(a, b)

\* Uuid's Hash::hash: the id written to the hasher.
raw_hash(A, a, state) == Append(state, a)

\* What a Hasher has been fed when an Id is hashed into it.
HasherStates == {<<>>} \cup {<<u>> : u \in Uuids}

\* PartialEq for Id<A>
Id_eq(A, self, other_) == raw_eq(A, self.raw, other_.raw)

\* PartialOrd for Id<A>
Id_partial_cmp(A, self, other_) == raw_partial_cmp(A, self.raw, other_.raw)

\* The operands the other way round (other.0.cmp(&self.0)): C30 rests on
\* the order of the operands.
Id_cmp_reversed(A, self, other_) == raw_cmp(A, other_.raw, self.raw)

\* Ord for Id<A>
Id_cmp(A, self, other_) == raw_cmp(A, self.raw, other_.raw)

\* Hash for Id<A>
Id_hash(A, self, state) == raw_hash(A, self.raw, state)

(* ------------------------------- commands ----------------------------- *)
\* The application's command types, by std::any::type_name.  app::Alias is
\* derived with #[presage(name = "A")]: another type under the name of app::A.
CommandTypes == {"app::A", "app::Alias", "app::B", "app::C"}

\* Command::NAME
Command_NAME(C) ==
    CASE C = "app::A" -> "A"
      [] C = "app::Alias" -> "A"
      [] C = "app::B" -> "B"
      [] C = "app::C" -> "C"
      [] C = "todo::CreateTodo" -> "create-todo"
      [] C = "todo::RenameTodo" -> "rename-todo"
      [] C = "todo::CheckTodo" -> "check-todo"
      [] C = "todo::ArchiveTodo" -> "archive-done-todo"
      [] C = "todo::DeleteArchivedTodos" -> "delete-archived-todos"

\* std::any::type_name::<C>()
type_name(C) == C

\* The values of the command types.
CommandValues == {[type |-> C, payload |-> x] : C \in CommandTypes, x \in 1..2}

\* Error::CommandDowncastError(type_name)
CommandDowncastError(n) == [kind |-> "CommandDowncastError", name |-> n]

\* Box::new(command) as Box<dyn Any + Send + Sync>: the value with the TypeId
\* of its type.
Box_new(c) == [type_id |-> c.type, content |-> c]

\* Box<dyn Any>::downcast::<C>: the content when it is a C, the box otherwise.
Box_downcast(C, b) ==
    IF b.type_id = C THEN OkOf(b.content) ELSE [kind |-> "Err", value |-> b]

\* The box named by type_name::<C>() in place of C::NAME: C26 rests on the
\* name being the command's NAME.
from_type_name(c) == [name |-> type_name(c.type), command |-> Box_new(c)]

\* BoxedCommand::from
BoxedCommand_from(c) == [name |-> Command_NAME(c.type), command |-> Box_new(c)]

\* BoxedCommand::name
BoxedCommand_name(boxed) == boxed.name

\* The content handed over as a C when the box has C's NAME, whatever its
\* type: C27 rests on Any comparing TypeIds.
downcast_by_name(C, boxed) ==
    IF boxed.name = Command_NAME(C) THEN OkOf(boxed.command.content)
    ELSE CommandDowncastError(type_name(C))

\* BoxedCommand::downcast::<C>
downcast(C, boxed) ==
    LET cast == Box_downcast(C, boxed.command)
    IN IF cast.kind = "Ok" THEN OkOf(cast.value)
       ELSE CommandDowncastError(type_name(C))

(* --------------------------- CommandBus::execute ---------------------- *)
\* VecDeque::from([command.into()])
queue_from(n) == <<[BoxedCommand(n, 0, 0, 0, 1) EXCEPT !.id = nextId]>>

\* pop_front taking the command at the back instead (a stack): C1 rests on
\* the end of the queue that is popped.
pop_back(q) == [command |-> q[Len(q)], rest |-> SubSeq(q, 1, Len(q) - 1)]

\* VecDeque::pop_front: the popped command and the rest.
pop_front(q) == [command |-> Head(q), rest |-> Tail(q)]

\* extend putting the commands at the front of the queue: C3 rests on the
\* end of the queue that receives them.
queue_extend_front(q, cmds) == cmds \o q

\* extend taking every command twice: C13 rests on each command entering the
\* queue once.
queue_extend_twice(q, cmds) == q \o cmds \o cmds

\* VecDeque::extend: the commands go to the back, in their order.
queue_extend(q, cmds) == q \o cmds

\* The collected commands with each handler's batch put before the earlier
\* ones: C5 rests on the order of the concatenation.
vec_extend_front(v, cmds) == cmds \o v

\* Vec::extend in handle_event.
vec_extend(v, cmds) == v \o cmds

\* CommandBus::get_command_handler
get_command_handler(command_name_) ==
    LET found == get(command_handlers, command_name_)
    IN IF found = <<>>
       THEN [ok |-> FALSE, handler |-> "",
             err |-> MissingCommandHandlerError(command_name_)]
       ELSE [ok |-> TRUE, handler |-> found[1], err |-> Ok]

\* `?` replaced by a conversion that drops the error (.ok(), unwrap_or_default):
\* C8 rests on the early return.
never_err(o) == FALSE

\* The `?` operator: an Err leaves execute at once.
is_err(o) == ~o.ok

\* The for loop left after its first event: C2 rests on the whole batch
\* being drained before the queue is looked at again.
next_event_first_only(evs, i) == IF i <= 1 /\ i <= Len(evs) THEN "write" ELSE "loop"

\* `for event in events`: the next event, or back to the queue.
next_event(evs, i) == IF i <= Len(evs) THEN "write" ELSE "loop"

\* Every registered event handler, whatever name it is registered under:
\* C14 rests on the lookup by the event's name.
handlers_of_any(event_name) ==
    LET found == get(event_handlers, "e1")
    IN IF found = <<>> THEN <<>> ELSE found[1]

\* self.event_handlers.get(event.name()), None read as no handler.
handlers_of(event_name) ==
    LET found == get(event_handlers, event_name)
    IN IF found = <<>> THEN <<>> ELSE found[1]

\* The None arm returning an error, as in the variant of the bus where a
\* missing writer is fatal: C10 rests on the arm returning Ok(()).
no_writer_is_error(event_name) ==
    [ok |-> FALSE, out |-> <<>>,
     err |-> [kind |-> "MissingEventWriter", name |-> event_name],
     mark |-> <<>>]

\* write_event's None arm: a warning is logged and Ok(()) returned.
no_writer_outcome(event_name) ==
    [ok |-> TRUE, out |-> <<>>, err |-> Ok, mark |-> <<>>]

\* Leaving execute with the context put back as the call received it: C9
\* rests on execute not doing so.
AbortRollback(err, ctx) ==
    /\ pc' = "done"
    /\ result' = err
    /\ context' = ctx0

\* Leaving execute with Err(err): the context stays as the failing step left it.
Abort(err, ctx) ==
    /\ pc' = "done"
    /\ result' = err
    /\ context' = ctx

\* The commands a handle_event call returns enter the queue: they are
\* numbered in the order in which they enter.
Entering(cmds) == [i \in 1..Len(cmds) |-> [cmds[i] EXCEPT !.id = nextId + i - 1]]

\* No library call made outside execute.
NoCall == [fn |-> "none", args |-> <<>>, ret |-> <<>>]

\* The registers of a caller that is not inside execute: its own context, and
\* no call frame.
IdleCall ==
    [context |-> <<>>, pc |-> "idle", commands |-> <<>>, command |-> NoCommand,
     events |-> <<>>, k |-> 0, j |-> 0, event_commands |-> <<>>,
     result |-> NoResult, submitted |-> "", ctx0 |-> <<>>, trace |-> <<>>]

\* A bus built by CommandBus::new().configure(cfg), and two callers holding
\* it, neither inside execute; made is the library call that built cfg.
InitBuilt(cfg, made) ==
    /\ configuration = cfg
    /\ LET b == configure(CommandBus_new, cfg)
       IN /\ command_handlers = b.command_handlers
          /\ event_writers = b.event_writers
          /\ event_handlers = b.event_handlers
    /\ other = IdleCall
    /\ context = <<>>
    /\ pc = "idle"
    /\ commands = <<>>
    /\ command = NoCommand
    /\ events = <<>>
    /\ k = 0
    /\ j = 0
    /\ event_commands = <<>>
    /\ result = NoResult
    /\ submitted = ""
    /\ ctx0 = <<>>
    /\ nextId = 1
    /\ emitted = 0
    /\ trace = <<>>
    /\ call = made

InitWith(cfg) == InitBuilt(cfg, NoCall)

Init == \E cfg \in Configurations : InitWith(cfg)

\* The registers of the running caller.
Registers ==
    [context |-> context, pc |-> pc, commands |-> commands,
     command |-> command, events |-> events, k |-> k, j |-> j,
     event_commands |-> event_commands, result |-> result,
     submitted |-> submitted, ctx0 |-> ctx0, trace |-> trace]

\* The queue kept from one call to the next, as a field of the bus would be:
\* C15 rests on the queue being a local that every call creates.
ExecuteKeepingQueue(n) ==
    /\ pc = "idle"
    /\ nextId <= MaxCommands
    /\ submitted' = n
    /\ ctx0' = context
    /\ commands' = queue_extend(commands, queue_from(n))
    /\ nextId' = nextId + 1
    /\ trace' = <<>>
    /\ command' = NoCommand
    /\ events' = <<>>
    /\ k' = 0
    /\ j' = 0
    /\ event_commands' = <<>>
    /\ result' = NoResult
    /\ pc' = "loop"
    /\ UNCHANGED <<bus, call, configuration, other, context, emitted>>

\* execute is called with a command named n.
Execute(n) ==
    /\ pc = "idle"
    /\ nextId <= MaxCommands
    /\ submitted' = n
    /\ ctx0' = context
    /\ commands' = queue_from(n)
    /\ nextId' = nextId + 1
    /\ trace' = <<>>
    /\ command' = NoCommand
    /\ events' = <<>>
    /\ k' = 0
    /\ j' = 0
    /\ event_commands' = <<>>
    /\ result' = NoResult
    /\ pc' = "loop"
    /\ UNCHANGED <<bus, call, configuration, other, context, emitted>>

\* The loop left with Ok(()) whatever is pending: C11 rests on the loop
\* ending only when pop_front finds nothing.
ReturnOkEarly ==
    /\ pc = "loop"
    /\ pc' = "done"
    /\ result' = Ok
    /\ UNCHANGED <<bus, call, configuration, other, context, locals, submitted,
                   ctx0, nextId, emitted, trace>>

\* The queue is empty: the while loop ends and execute returns Ok(()).
ReturnOk ==
    /\ pc = "loop"
    /\ commands = <<>>
    /\ pc' = "done"
    /\ result' = Ok
    /\ UNCHANGED <<bus, call, configuration, other, context, locals, submitted,
                   ctx0, nextId, emitted, trace>>

\* A command without handler dropped silently, the loop going on: C6 rests
\* on the lookup's error being returned.
SkipMissingCommand ==
    /\ pc = "loop"
    /\ commands # <<>>
    /\ LET p == pop_front(commands)
       IN /\ p.command.name \notin DOMAIN command_handlers
          /\ command' = p.command
          /\ commands' = p.rest
    /\ events' = <<>>
    /\ k' = 0
    /\ UNCHANGED <<bus, call, configuration, other, context, pc, result, j,
                   event_commands, submitted, ctx0, nextId, emitted, trace>>

\* The front command has no handler: get_command_handler(..)? returns.
MissingCommandHandler ==
    /\ pc = "loop"
    /\ commands # <<>>
    /\ LET p == pop_front(commands)
           found == get_command_handler(p.command.name)
       IN /\ is_err(found)
          /\ command' = p.command
          /\ commands' = p.rest
          /\ Abort(found.err, context)
    /\ events' = <<>>
    /\ k' = 0
    /\ UNCHANGED <<bus, call, configuration, other, j, event_commands,
                   submitted, ctx0, nextId, emitted, trace>>

\* The front command is popped and its handler invoked.
HandleCommand ==
    /\ pc = "loop"
    /\ commands # <<>>
    /\ LET p == pop_front(commands)
           found == get_command_handler(p.command.name)
       IN /\ ~is_err(found)
          /\ command' = p.command
          /\ commands' = p.rest
          /\ \E o \in CommandOutcomes(found.handler, MaxEvents - emitted) :
               /\ emitted' = emitted + Len(o.out)
               /\ trace' = Append(trace,
                    Invocation("command", found.handler, p.command.name,
                               p.command, 0, 0, o))
               /\ IF is_err(o)
                  THEN /\ Abort(o.err, context \o o.mark)
                       /\ events' = <<>>
                       /\ k' = 0
                  ELSE /\ context' = context \o o.mark
                       /\ events' = o.out
                       /\ k' = 1
                       /\ pc' = next_event(o.out, 1)
                       /\ UNCHANGED result
    /\ UNCHANGED <<bus, call, configuration, other, j, event_commands,
                   submitted, ctx0, nextId>>

\* handle_event going straight to the event handlers, write_event never
\* called: C4 rests on the write coming first.
WriteEventSkipped ==
    /\ pc = "write"
    /\ event_commands' = <<>>
    /\ j' = 1
    /\ pc' = "fan"
    /\ UNCHANGED <<bus, call, configuration, other, context, commands, command,
                   events, k, result, submitted, ctx0, nextId, emitted, trace>>

\* handle_event begins: write_event(context, &event).
WriteEvent ==
    /\ pc = "write"
    /\ LET found == get(event_writers, events[k])
       IN \E o \in (IF found = <<>> THEN {no_writer_outcome(events[k])}
                    ELSE WriterOutcomes(found[1])) :
            /\ trace' = IF found = <<>> THEN trace
                        ELSE Append(trace,
                               Invocation("write", found[1], events[k],
                                          command, k, 0, o))
            /\ IF is_err(o)
               THEN /\ Abort(o.err, context \o o.mark)
                    /\ UNCHANGED <<j, event_commands>>
               ELSE /\ context' = context \o o.mark
                    /\ event_commands' = <<>>
                    /\ j' = 1
                    /\ pc' = "fan"
                    /\ UNCHANGED result
    /\ UNCHANGED <<bus, call, configuration, other, commands, command, events,
                   k, submitted, ctx0, nextId, emitted>>

\* The handlers of the event invoked together (join_all over the list), each
\* given the context as the step found it, and awaited as one: C18 rests on
\* the loop awaiting each handler before it invokes the next.
HandleEventsJoined ==
    /\ pc = "fan"
    /\ j <= Len(handlers_of(events[k]))
    /\ LET hs == handlers_of(events[k])
           made == [h \in 1..Len(hs) |->
                      Invocation("event", hs[h], events[k], command, k, h,
                          [ok |-> TRUE, out |-> <<>>, mark |-> <<hs[h]>>])]
       IN /\ trace' = trace \o made
          /\ context' = context \o <<hs[Len(hs)]>>
          /\ j' = Len(hs) + 1
    /\ UNCHANGED <<bus, call, configuration, other, pc, commands, command,
                   events, k, event_commands, result, submitted, ctx0, nextId,
                   emitted>>

\* The next event handler registered for the event's name is invoked.
HandleEvent ==
    /\ pc = "fan"
    /\ j <= Len(handlers_of(events[k]))
    /\ LET g == handlers_of(events[k])[j]
           room == MaxCommands - (nextId - 1) - Len(event_commands)
                     - Len(other.event_commands)
       IN \E o \in EventOutcomes(g, room) :
            /\ trace' = Append(trace,
                 Invocation("event", g, events[k], command, k, j, o))
            /\ IF is_err(o)
               THEN /\ Abort(o.err, context \o o.mark)
                    /\ UNCHANGED <<j, event_commands>>
               ELSE /\ context' = context \o o.mark
                    /\ event_commands' = vec_extend(event_commands,
                         [i \in 1..Len(o.out) |->
                            BoxedCommand(o.out[i], command.id, k, j, i)])
                    /\ j' = j + 1
                    /\ UNCHANGED <<pc, result>>
    /\ UNCHANGED <<bus, call, configuration, other, commands, command, events,
                   k, submitted, ctx0, nextId, emitted>>

\* The handler lookup made when the commands enter the queue instead of when
\* they reach its front: C7 rests on the lookup being made at the pop.
ExtendQueueChecked ==
    /\ pc = "fan"
    /\ j > Len(handlers_of(events[k]))
    /\ LET unknown == {i \in 1..Len(event_commands) :
                         event_commands[i].name \notin DOMAIN command_handlers}
       IN IF unknown # {}
          THEN /\ Abort(MissingCommandHandlerError(
                         event_commands[CHOOSE i \in unknown :
                             \A i2 \in unknown : i <= i2].name), context)
               /\ UNCHANGED <<commands, nextId, event_commands, k>>
          ELSE /\ commands' = queue_extend(commands, Entering(event_commands))
               /\ nextId' = nextId + Len(event_commands)
               /\ event_commands' = <<>>
               /\ k' = k + 1
               /\ pc' = next_event(events, k + 1)
               /\ UNCHANGED <<context, result>>
    /\ UNCHANGED <<bus, call, configuration, other, command, events, j,
                   submitted, ctx0, emitted, trace>>

\* handle_event taking the event's handler list out of the registry
\* (HashMap::remove for HashMap::get): C16 rests on execute reading only.
ExtendQueueConsuming ==
    /\ pc = "fan"
    /\ j > Len(handlers_of(events[k]))
    /\ commands' = queue_extend(commands, Entering(event_commands))
    /\ nextId' = nextId + Len(event_commands)
    /\ event_commands' = <<>>
    /\ k' = k + 1
    /\ pc' = next_event(events, k + 1)
    /\ event_handlers' =
          [n \in DOMAIN event_handlers \ {events[k]} |-> event_handlers[n]]
    /\ UNCHANGED <<command_handlers, event_writers, call, configuration, other,
                   context, command, events, j, result, submitted, ctx0,
                   emitted, trace>>

\* handle_event returns Ok(commands): commands.extend(..), then the next event.
ExtendQueue ==
    /\ pc = "fan"
    /\ j > Len(handlers_of(events[k]))
    /\ commands' = queue_extend(commands, Entering(event_commands))
    /\ nextId' = nextId + Len(event_commands)
    /\ event_commands' = <<>>
    /\ k' = k + 1
    /\ pc' = next_event(events, k + 1)
    /\ UNCHANGED <<bus, call, configuration, other, context, command, events,
                   j, result, submitted, ctx0, emitted, trace>>

Next ==
    \/ \E n \in CommandNames : Execute(n)
    \/ ReturnOk
    \/ MissingCommandHandler
    \/ HandleCommand
    \/ WriteEvent
    \/ HandleEvent
    \/ ExtendQueue

Spec == Init /\ [][Next]_vars

\* The steps execute takes once it is called.  The caller awaits the future
\* execute returns and every handler's future completes: a step that can be
\* taken is taken.
Poll ==
    \/ ReturnOk
    \/ MissingCommandHandler
    \/ HandleCommand
    \/ WriteEvent
    \/ HandleEvent
    \/ ExtendQueue

LiveInit == InitWith(ConfigurationWritten)

LiveSpec == LiveInit /\ [][Next]_vars /\ WF_vars(Poll)

(* ----------------------- building a Configuration -------------------- *)
\* A registration, as recorded while a Configuration is built.
Registration(kind, by) == [kind |-> kind, by |-> by]

\* Configuration::new(): nothing registered, and a bus not yet configured.
ConfigurationInit == InitWith(Configuration_new)

\* configuration = configuration.command_handler(h)
RegisterCommandHandler(h) ==
    /\ Len(trace) < MaxRegistrations
    /\ configuration' = command_handler(configuration, h)
    /\ trace' = Append(trace, Registration("command_handler", h))
    /\ UNCHANGED <<bus, call, other, context, pc, locals, result, submitted,
                   ctx0, nextId, emitted>>

\* configuration = configuration.event_handler(g)
RegisterEventHandler(g) ==
    /\ Len(trace) < MaxRegistrations
    /\ configuration' = event_handler(configuration, g)
    /\ trace' = Append(trace, Registration("event_handler", g))
    /\ UNCHANGED <<bus, call, other, context, pc, locals, result, submitted,
                   ctx0, nextId, emitted>>

\* configuration = configuration.event_writer(w)
RegisterEventWriter(w) ==
    /\ Len(trace) < MaxRegistrations
    /\ configuration' = event_writer(configuration, w)
    /\ trace' = Append(trace, Registration("event_writer", w))
    /\ UNCHANGED <<bus, call, other, context, pc, locals, result, submitted,
                   ctx0, nextId, emitted>>

ConfigurationNext ==
    \/ \E h \in CommandHandlerObjects : RegisterCommandHandler(h)
    \/ \E g \in EventHandlerObjects : RegisterEventHandler(g)
    \/ \E w \in EventWriterObjects : RegisterEventWriter(w)

ConfigurationSpec == ConfigurationInit /\ [][ConfigurationNext]_vars

(* ------------------------- one call after another --------------------- *)
\* The caller has the result and may call execute again, with the same
\* context.  The frame of the call that returned is kept in `other`; what it
\* left in the registers is dead: the next call sets every one of them.
Return ==
    /\ pc = "done"
    /\ other' = Registers
    /\ pc' = "idle"
    /\ UNCHANGED <<bus, call, configuration, context, locals, result,
                   submitted, ctx0, nextId, emitted, trace>>

CallsNext ==
    \/ Next
    \/ Return

CallsInit == InitWith(ConfigurationWritten)

CallsSpec == CallsInit /\ [][CallsNext]_vars

(* --------------------- generated command handlers -------------------- *)
\* The type of the command parameter of the function that #[command_handler]
\* turns into each handler object; its NAME is the handler's command_name.
parameter_type(h) ==
    CASE h = "hA" -> "app::A"
      [] h = "hA2" -> "app::Alias"
      [] h = "hB" -> "app::B"

\* The type of a pending command's content: the type it was submitted as,
\* and for a command that an event handler returned the type called like it.
content_type(cmd) ==
    IF "type" \in DOMAIN cmd THEN cmd.type
    ELSE CASE cmd.name = "A" -> "app::A"
           [] cmd.name = "B" -> "app::B"
           [] cmd.name = "C" -> "app::C"

\* The pending command as the BoxedCommand it is.
boxed(cmd) ==
    [name |-> cmd.name,
     command |-> [type_id |-> content_type(cmd), content |-> cmd]]

\* execute is called with a command of type C.
ExecuteAs(C) ==
    /\ pc = "idle"
    /\ nextId <= MaxCommands
    /\ submitted' = Command_NAME(C)
    /\ ctx0' = context
    /\ commands' = <<[name |-> Command_NAME(C), id |-> nextId, parent |-> 0,
                      ev |-> 0, h |-> 0, pos |-> 1, type |-> C]>>
    /\ nextId' = nextId + 1
    /\ trace' = <<>>
    /\ command' = NoCommand
    /\ events' = <<>>
    /\ k' = 0
    /\ j' = 0
    /\ event_commands' = <<>>
    /\ result' = NoResult
    /\ pc' = "loop"
    /\ UNCHANGED <<bus, call, configuration, other, context, emitted>>

\* The function's block run before the downcast is looked at: C28 rests on
\* `command.downcast()?` being the first statement of handle.
HandleBlockFirst ==
    /\ pc = "loop"
    /\ commands # <<>>
    /\ LET p == pop_front(commands)
           found == get_command_handler(p.command.name)
       IN /\ ~is_err(found)
          /\ LET cast == downcast(parameter_type(found.handler), boxed(p.command))
             IN IF cast.kind = "Ok"
                THEN HandleCommand
                ELSE /\ command' = p.command
                     /\ commands' = p.rest
                     /\ \E o \in CommandOutcomes(found.handler, 0) :
                          /\ trace' = Append(trace,
                                Invocation("command", found.handler,
                                           p.command.name, p.command, 0, 0, o))
                          /\ Abort(cast, context \o o.mark)
                     /\ events' = <<>>
                     /\ k' = 0
                     /\ UNCHANGED <<bus, call, configuration, other, j,
                                    event_commands, submitted, ctx0, nextId,
                                    emitted>>

\* The front command is popped and given to a generated handler, which
\* downcasts it to its parameter type before anything else: on Err the `?`
\* returns it, converted to E, and execute returns it in turn.
HandleBoxedCommand ==
    /\ pc = "loop"
    /\ commands # <<>>
    /\ LET p == pop_front(commands)
           found == get_command_handler(p.command.name)
       IN /\ ~is_err(found)
          /\ LET cast == downcast(parameter_type(found.handler), boxed(p.command))
             IN IF cast.kind = "Ok"
                THEN HandleCommand
                ELSE /\ command' = p.command
                     /\ commands' = p.rest
                     /\ trace' = Append(trace,
                           Invocation("command", found.handler, p.command.name,
                                      p.command, 0, 0,
                                      [ok |-> FALSE, out |-> <<>>, err |-> cast,
                                       mark |-> <<>>]))
                     /\ Abort(cast, context)
                     /\ events' = <<>>
                     /\ k' = 0
                     /\ UNCHANGED <<bus, call, configuration, other, j,
                                    event_commands, submitted, ctx0, nextId,
                                    emitted>>

\* The types the caller submits: the two under the name "A".
Submitted == {C \in CommandTypes : Command_NAME(C) = "A"}

DowncastNext ==
    \/ \E C \in Submitted : ExecuteAs(C)
    \/ ReturnOk
    \/ MissingCommandHandler
    \/ HandleBoxedCommand
    \/ WriteEvent
    \/ HandleEvent
    \/ ExtendQueue
    \/ Return

DowncastInit == InitWith(ConfigurationWritten)

DowncastSpec == DowncastInit /\ [][DowncastNext]_vars

(* ---------------------------- concurrent calls ----------------------- *)
\* The running caller and the other one installed in the registers.
Install(mine, theirs) ==
    /\ other' = mine
    /\ context' = theirs.context
    /\ pc' = theirs.pc
    /\ commands' = theirs.commands
    /\ command' = theirs.command
    /\ events' = theirs.events
    /\ k' = theirs.k
    /\ j' = theirs.j
    /\ event_commands' = theirs.event_commands
    /\ result' = theirs.result
    /\ submitted' = theirs.submitted
    /\ ctx0' = theirs.ctx0
    /\ trace' = theirs.trace
    /\ UNCHANGED <<bus, call, configuration, nextId, emitted>>

\* The two callers with one pending queue between them, as a field of the
\* bus would be: C17 rests on each call having its own.
SwitchSharingQueue ==
    /\ pc # "idle"
    /\ other.pc # "done"
    /\ Install([Registers EXCEPT !.commands = other.commands],
               [other EXCEPT !.commands = commands])

\* Two callers share the bus (&self), each with a context of its own.  The
\* executor runs one of them, then the other: between two steps of one
\* call come any number of steps of the other call.  The caller in the
\* registers is the first to call, and a caller that has its result is not
\* run again.
Switch ==
    /\ pc # "idle"
    /\ other.pc # "done"
    /\ Install(Registers, other)

ConcurrentNext ==
    \/ Next
    \/ Switch

ConcurrentInit == InitWith(ConfigurationWritten)

ConcurrentSpec == ConcurrentInit /\ [][ConcurrentNext]_vars

(* ----------------------------- library calls ------------------------ *)
\* What the library offers besides execute, called by an application on
\* values of its own: one call in a behaviour, recorded in `call` with its
\* arguments and what it returned.
Called(fn, args, ret) ==
    /\ call' = [fn |-> fn, args |-> args, ret |-> ret]
    /\ UNCHANGED <<bus, configuration, other, context, pc, locals, result,
                   submitted, ctx0, nextId, emitted, trace>>

\* a + b
Add ==
    /\ call = NoCall
    /\ \E a, b \in Operands : Called("add", <<a, b>>, <<add(a, b)>>)

\* a += b: what is returned is a after the call.
AddAssign ==
    /\ call = NoCall
    /\ \E a, b \in Operands :
          Called("add_assign", <<a, b>>, <<add_assign(a, b)>>)

\* (a + b) + c and a + (b + c), by a caller that merges three modules.
AddThree ==
    /\ call = NoCall
    /\ \E a, b, c \in Operands :
          Called("add3", <<a, b, c>>, <<add(add(a, b), c), add(a, add(b, c))>>)

\* event.serialize()
Serialize ==
    /\ call = NoCall
    /\ \E x \in EventValues : Called("serialize", <<x>>, <<serialize(x)>>)

\* event.deserialize::<T>()
Deserialize ==
    /\ call = NoCall
    /\ \E T \in EventTypes, event \in SerializedEvents :
          Called("deserialize", <<T, event>>, <<deserialize(T, event)>>)

\* BoxedCommand::from(c), or c.into()
From ==
    /\ call = NoCall
    /\ \E c \in CommandValues : Called("from", <<c>>, <<BoxedCommand_from(c)>>)

\* BoxedCommand::from(c).downcast::<C>()
Downcast ==
    /\ call = NoCall
    /\ \E C \in CommandTypes, c \in CommandValues :
          Called("downcast", <<C, c, BoxedCommand_from(c)>>,
                 <<downcast(C, BoxedCommand_from(c))>>)

\* events.add(x) on an Events that starts as Events::new(): `call` keeps
\* the events given to add so far, the Events as the last call left it, what
\* that call returned, and what iterating over the Events would yield.  The
\* events added are of the struct types, one of which fails to serialize.
EventsAdd ==
    /\ call.fn \in {"none", "Events::add"}
    /\ Len(call.args) <= MaxBatch
    /\ \E x \in {y \in EventValues : y.type # "TodoUpdated"} :
          LET self == IF call.fn = "Events::add" THEN call.ret[1] ELSE Events_new
              after == Events_add(self, x)
          IN Called("Events::add", Append(call.args, x),
                    <<after.self, after.result, into_iter(after.self)>>)

\* a == b on two Id<A>
IdEq ==
    /\ call = NoCall
    /\ \E A \in Aggregates : \E x, y \in IdsOf(A) :
          Called("Id::eq", <<A, x, y>>, <<Id_eq(A, x, y)>>)

\* a.partial_cmp(&b), behind a < b and the like
IdPartialCmp ==
    /\ call = NoCall
    /\ \E A \in Aggregates : \E x, y \in IdsOf(A) :
          Called("Id::partial_cmp", <<A, x, y>>, <<Id_partial_cmp(A, x, y)>>)

\* a.cmp(&b), where A::Id is Ord
IdCmp ==
    /\ call = NoCall
    /\ \E x, y \in IdsOf("Todo") :
          Called("Id::cmp", <<"Todo", x, y>>, <<Id_cmp("Todo", x, y)>>)

\* a.hash(&mut state), where A::Id is Hash
IdHash ==
    /\ call = NoCall
    /\ \E x \in IdsOf("Todo"), state \in HasherStates :
          Called("Id::hash", <<"Todo", x, state>>, <<Id_hash("Todo", x, state)>>)

LibraryInit == InitWith(Configuration_new)

LibraryNext ==
    \/ Add
    \/ AddAssign
    \/ AddThree
    \/ Serialize
    \/ Deserialize
    \/ From
    \/ Downcast
    \/ EventsAdd
    \/ IdEq
    \/ IdPartialCmp
    \/ IdCmp
    \/ IdHash

LibrarySpec == LibraryInit /\ [][LibraryNext]_vars

(* ------------------------- the writers of a bus ----------------------- *)
\* A module's handlers, with no writer.
Handled ==
    command_handler(
      command_handler(event_handler(Configuration_new, "g1"), "hA"),
      "hB")

\* The configurations a writer is added to: the handlers alone, or with a
\* writer registered before.
WriterBases == {Handled} \cup {event_writer(Handled, w) : w \in EventWriterObjects}

\* The modules merged into them: nothing but a writer, or nothing at all.
WriterModules ==
    {Configuration_new}
        \cup {event_writer(Configuration_new, w) : w \in EventWriterObjects}

\* The application registers a writer on a configuration, or merges a
\* module into it, and builds its bus from the result; `call` keeps how.
WriterInit ==
    \E a \in WriterBases :
        \/ \E w \in EventWriterObjects :
              InitBuilt(event_writer(a, w),
                        [fn |-> "event_writer", args |-> <<a, w>>,
                         ret |-> <<event_writer(a, w)>>])
        \/ \E b \in WriterModules :
              InitBuilt(add_assign(a, b),
                        [fn |-> "add_assign", args |-> <<a, b>>,
                         ret |-> <<add_assign(a, b)>>])

WriterSpec == WriterInit /\ [][Next]_vars

(* ------------------------ a bus configured twice ---------------------- *)
\* The configuration a bus receives first: the handlers alone, or the full
\* set with the writer "w1".
ConfiguredFirst == {Handled, ConfigurationFull}

\* The configuration it receives next: nothing, a second handler for both
\* event names, or another handler for "A" with the writer "w2" and the
\* handler "g1" again.
ConfiguredNext ==
    {Configuration_new,
     event_handler(Configuration_new, "g2"),
     event_writer(
       command_handler(event_handler(Configuration_new, "g1"), "hA2"),
       "w2")}

\* A bus built by CommandBus::new().configure(a).configure(b); `call` keeps
\* a and b, and the bus that one configure call with a + b builds.
ReconfiguredInit ==
    \E a \in ConfiguredFirst, b \in ConfiguredNext :
        /\ configuration = b
        /\ LET twice == configure(configure(CommandBus_new, a), b)
           IN /\ command_handlers = twice.command_handlers
              /\ event_writers = twice.event_writers
              /\ event_handlers = twice.event_handlers
        /\ other = IdleCall
        /\ context = <<>>
        /\ pc = "idle"
        /\ commands = <<>>
        /\ command = NoCommand
        /\ events = <<>>
        /\ k = 0
        /\ j = 0
        /\ event_commands = <<>>
        /\ result = NoResult
        /\ submitted = ""
        /\ ctx0 = <<>>
        /\ nextId = 1
        /\ emitted = 0
        /\ trace = <<>>
        /\ call = [fn |-> "configure", args |-> <<a, b>>,
                   ret |-> <<configure(CommandBus_new, add(a, b))>>]

ReconfiguredSpec == ReconfiguredInit /\ [][Next]_vars

(* --------------------------- a feedback loop -------------------------- *)
\* An application whose command handler emits one "e1" per command and whose
\* handler of "e1" answers with the command that triggered the event.  The
\* context tells the event handler for how long: <<"always">> for ever, a
\* sequence of "again" once per element, which the handler takes away.
FeedbackContexts ==
    {<<"always">>} \cup {[i \in 1..r |-> "again"] : r \in 0..MaxRounds}

\* The batches the command handler returns: exactly one "e1" in each.
FeedbackBatches ==
    {b \in SeqsUpTo(EventNames, MaxBatch) :
        Cardinality({i \in 1..Len(b) : b[i] = "e1"}) = 1}

\* What the event handler returns for an event triggered by `cmd`, and the
\* context it leaves.
feedback_handle(ctx, cmd) ==
    IF ctx = <<>> THEN [out |-> <<>>, ctx |-> ctx]
    ELSE IF Head(ctx) = "always" THEN [out |-> <<cmd>>, ctx |-> ctx]
    ELSE [out |-> <<cmd>>, ctx |-> Tail(ctx)]

FeedbackInit ==
    /\ InitWith(ConfigurationSparse)

\* execute is called with a command named n and a context in one of the
\* states above.
FeedbackExecute(n) ==
    /\ pc = "idle"
    /\ \E ctx \in FeedbackContexts : context' = ctx /\ ctx0' = ctx
    /\ submitted' = n
    /\ commands' = <<BoxedCommand(n, 0, 0, 0, 0)>>
    /\ command' = NoCommand
    /\ events' = <<>>
    /\ k' = 0
    /\ j' = 0
    /\ event_commands' = <<>>
    /\ result' = NoResult
    /\ pc' = "loop"
    /\ UNCHANGED <<bus, call, configuration, other, nextId, emitted, trace>>

\* The front command is popped and its handler invoked: it returns a batch.
FeedbackHandleCommand ==
    /\ pc = "loop"
    /\ commands # <<>>
    /\ LET p == pop_front(commands)
           found == get_command_handler(p.command.name)
       IN /\ ~is_err(found)
          /\ command' = p.command
          /\ commands' = p.rest
          /\ \E b \in FeedbackBatches :
               /\ events' = b
               /\ k' = 1
               /\ pc' = next_event(b, 1)
    /\ UNCHANGED <<bus, call, configuration, other, context, j, event_commands,
                   result, submitted, ctx0, nextId, emitted, trace>>

\* The next handler of the event is invoked: it re-emits the command.
FeedbackHandleEvent ==
    /\ pc = "fan"
    /\ j <= Len(handlers_of(events[k]))
    /\ LET o == feedback_handle(context, command.name)
       IN /\ context' = o.ctx
          /\ event_commands' = vec_extend(event_commands,
               [i \in 1..Len(o.out) |-> BoxedCommand(o.out[i], 0, 0, 0, 0)])
    /\ j' = j + 1
    /\ UNCHANGED <<bus, call, configuration, other, pc, commands, command,
                   events, k, result, submitted, ctx0, nextId, emitted, trace>>

\* A loop that remembers the names it has handled and drops a command whose
\* name it has seen: C12 rests on execute doing nothing of the kind.
FeedbackExtendQueueOnce ==
    /\ pc = "fan"
    /\ j > Len(handlers_of(events[k]))
    /\ commands' = queue_extend(commands,
         SelectSeq(event_commands, LAMBDA c : c.name # command.name))
    /\ event_commands' = <<>>
    /\ k' = k + 1
    /\ pc' = next_event(events, k + 1)
    /\ UNCHANGED <<bus, call, configuration, other, context, command, events,
                   j, result, submitted, ctx0, nextId, emitted, trace>>

\* handle_event returns Ok(commands): commands.extend(..), then the next event.
FeedbackExtendQueue ==
    /\ pc = "fan"
    /\ j > Len(handlers_of(events[k]))
    /\ commands' = queue_extend(commands, event_commands)
    /\ event_commands' = <<>>
    /\ k' = k + 1
    /\ pc' = next_event(events, k + 1)
    /\ UNCHANGED <<bus, call, configuration, other, context, command, events,
                   j, result, submitted, ctx0, nextId, emitted, trace>>

FeedbackPoll ==
    \/ ReturnOk
    \/ MissingCommandHandler
    \/ FeedbackHandleCommand
    \/ WriteEvent
    \/ FeedbackHandleEvent
    \/ FeedbackExtendQueue

FeedbackNext ==
    \/ \E n \in CommandNames : FeedbackExecute(n)
    \/ FeedbackPoll

FeedbackSpec == FeedbackInit /\ [][FeedbackNext]_vars /\ WF_vars(FeedbackPoll)

(* ------------------------ the example application --------------------- *)
\* examples/todo: the aggregate, the context that stores it, the command
\* and event handlers, the writer, and the bus that TodoApp::new builds.

\* TodoState
TodoState_New == [state |-> "New"]
TodoState_Done(done_date) == [state |-> "Done", done_date |-> done_date]
TodoState_Archived(done_date, archived_date) ==
    [state |-> "Archived", done_date |-> done_date,
     archived_date |-> archived_date]

\* Todo { id, name, state }
Todo(id, name, state) == [id |-> id, name |-> name, state |-> state]

\* Aggregate::new for Todo
Todo_new(event) == Todo(event.id, event.name, TodoState_New)

\* Aggregate::apply for Todo
Todo_apply(self, event) ==
    CASE event.variant = "Renamed" -> [self EXCEPT !.name = event.new_name]
      [] event.variant = "Done" ->
            [self EXCEPT !.state = TodoState_Done(event.date)]
      [] event.variant = "Archived" ->
            [self EXCEPT !.state = TodoState_Archived(event.done_date,
                                                      event.archived_date)]

\* Ordering::then_with
then_with(first, second) == IF first = "Equal" THEN second ELSE first

\* OffsetDateTime's Ord: the earlier instant is the lesser.
OffsetDateTime_cmp(a, b) ==
    then_with(Ordering(a.year, b.year), Ordering(a.ordinal, b.ordinal))

\* The derived Ord of TodoState: the variants in the order of their
\* declaration, then their fields in the order of theirs.
TodoState_cmp(a, b) ==
    LET rank(s) == CASE s.state = "New" -> 0
                     [] s.state = "Done" -> 1
                     [] s.state = "Archived" -> 2
    IN IF rank(a) # rank(b) THEN Ordering(rank(a), rank(b))
       ELSE CASE a.state = "New" -> "Equal"
              [] a.state = "Done" -> OffsetDateTime_cmp(a.done_date, b.done_date)
              [] a.state = "Archived" ->
                    then_with(OffsetDateTime_cmp(a.done_date, b.done_date),
                              OffsetDateTime_cmp(a.archived_date, b.archived_date))

\* String's Ord on the model's strings: bytewise, a digit before a letter.
String_cmp(a, b) ==
    LET rank(str) == IF str = "milk" THEN 1 ELSE 0
    IN Ordering(rank(a), rank(b))

\* Ord for Todo: by state, then by name, then by id.
Todo_cmp(self, other_) ==
    then_with(TodoState_cmp(self.state, other_.state),
              then_with(String_cmp(self.name, other_.name),
                        Id_cmp("Todo", self.id, other_.id)))

RECURSIVE sort(_)
\* Vec::sort on a Vec<Todo> collected from the set S.
sort(S) ==
    IF S = {} THEN <<>>
    ELSE LET least == CHOOSE x \in S :
                         \A y \in S : Todo_cmp(x, y) \in {"Less", "Equal"}
         IN <<least>> \o sort(S \ {least})

\* The example's Error(pub String)
Error(message) == [kind |-> "Error", name |-> message]

\* Display of presage::Error, as thiserror derives it.
to_string(error) ==
    CASE error.kind = "CommandDowncastError" ->
            "Could not downcast command to type " \o error.name
      [] error.kind = "SerializationError" ->
            "Serialization error: " \o error.name
      [] error.kind = "MissingCommandHandler" ->
            "Missing command handler for command " \o error.name

\* impl From<presage::Error> for Error
Error_from(error) == Error(to_string(error))

\* TodosSummary { new, done, archived }
TodosSummary(new, done, archived) ==
    [new |-> new, done |-> done, archived |-> archived]

\* TodoContext::default()
TodoContext_default ==
    [todos |-> EmptyMap, summary |-> TodosSummary(0, 0, 0)]

\* TodoContext::get
TodoContext_get(self, id) == get(self.todos, id)

\* TodoContext::add: the context after the call, and what the call returned.
TodoContext_add(self, todo) ==
    IF todo.id \notin DOMAIN self.todos
    THEN [self |-> [self EXCEPT !.todos = insert(self.todos, todo.id, todo)],
          result |-> Ok]
    ELSE [self |-> self,
          result |-> Error("A todo with id " \o UuidText[todo.id.raw]
                           \o " already exists")]

\* TodoContext::update
TodoContext_update(self, todo) ==
    IF todo.id \in DOMAIN self.todos
    THEN [self |-> [self EXCEPT !.todos = insert(self.todos, todo.id, todo)],
          result |-> Ok]
    ELSE [self |-> self,
          result |-> Error("Todo " \o UuidText[todo.id.raw] \o " was not found")]

\* TodoContext::delete
TodoContext_delete(self, id) ==
    [self EXCEPT !.todos = [x \in DOMAIN self.todos \ {id} |-> self.todos[x]]]

\* TodoContext::list_visible_todos
list_visible_todos(self) ==
    sort({self.todos[x] : x \in {y \in DOMAIN self.todos :
                                    self.todos[y].state.state # "Archived"}})

\* TodoContext::list_archived_todos
list_archived_todos(self) ==
    sort({self.todos[x] : x \in {y \in DOMAIN self.todos :
                                    self.todos[y].state.state = "Archived"}})

\* TodoContext::summary
TodoContext_summary(self) == self.summary

\* TodoContext::save_summary
save_summary(self, summary) == [self EXCEPT !.summary = summary]

\* The example's commands.
CreateTodo(id, name) == [type |-> "todo::CreateTodo", id |-> id, name |-> name]
RenameTodo(id, name) == [type |-> "todo::RenameTodo", id |-> id, name |-> name]
CheckTodo(id, date) == [type |-> "todo::CheckTodo", id |-> id, date |-> date]
ArchiveTodo(id, date) == [type |-> "todo::ArchiveTodo", id |-> id, date |-> date]
DeleteArchivedTodos == [type |-> "todo::DeleteArchivedTodos"]

\* The commands a caller of TodoApp::execute submits.
TodoCommands ==
    {CreateTodo(i, n) : i \in Ids, n \in Strings}
    \cup {RenameTodo(i, n) : i \in Ids, n \in Strings}
    \cup {CheckTodo(i, d) : i \in Ids, d \in OffsetDateTimes}
    \cup {ArchiveTodo(i, d) : i \in Ids, d \in OffsetDateTimes}
    \cup {DeleteArchivedTodos}

RECURSIVE serialize_all(_)
\* The events! macro: every event serialized in turn, the first error
\* returned by `?` as the example's Error.
serialize_all(xs) ==
    IF xs = <<>> THEN OkOf(<<>>)
    ELSE LET first == serialize(Head(xs))
         IN IF first.kind # "Ok" THEN Error_from(first)
            ELSE LET rest == serialize_all(Tail(xs))
                 IN IF rest.kind # "Ok" THEN rest
                    ELSE OkOf(<<first.value>> \o rest.value)

\* The block of create_todo.
create_todo(context_, command_) ==
    serialize_all(<<TodoCreated(command_.id, command_.name)>>)

\* rename_todo emitting Renamed whatever the new name: C32 rests on the
\* test `todo.name != command.name`.
rename_todo_always(context_, command_) ==
    LET found == TodoContext_get(context_, command_.id)
    IN IF found = <<>>
       THEN Error("Todo with id " \o UuidText[command_.id.raw]
                  \o " does not exist")
       ELSE serialize_all(<<TodoUpdated_Renamed(found[1].id, found[1].name,
                                                command_.name)>>)

\* The block of rename_todo.
rename_todo(context_, command_) ==
    LET found == TodoContext_get(context_, command_.id)
    IN IF found = <<>>
       THEN Error("Todo with id " \o UuidText[command_.id.raw]
                  \o " does not exist")
       ELSE LET todo == found[1]
            IN IF todo.name # command_.name
               THEN serialize_all(<<TodoUpdated_Renamed(todo.id, todo.name,
                                                        command_.name)>>)
               ELSE OkOf(<<>>)

\* check_todo emitting Done whatever the todo's state: C38 and C39 rest on
\* the test `if let TodoState::New = todo.state`.
check_todo_any_state(context_, command_) ==
    LET found == TodoContext_get(context_, command_.id)
    IN IF found = <<>>
       THEN Error("Todo with id " \o UuidText[command_.id.raw]
                  \o " does not exist")
       ELSE serialize_all(<<TodoUpdated_Done(command_.id, command_.date)>>)

\* The block of check_todo.
check_todo(context_, command_) ==
    LET found == TodoContext_get(context_, command_.id)
    IN IF found = <<>>
       THEN Error("Todo with id " \o UuidText[command_.id.raw]
                  \o " does not exist")
       ELSE IF found[1].state.state = "New"
            THEN serialize_all(<<TodoUpdated_Done(command_.id, command_.date)>>)
            ELSE OkOf(<<>>)

\* archive_todo without the look at the state, the date of the command
\* standing for a missing date of check: C39 rests on the todo being Done.
archive_todo_any_state(context_, command_) ==
    LET found == TodoContext_get(context_, command_.id)
    IN IF found = <<>>
       THEN Error("Todo with id " \o UuidText[command_.id.raw]
                  \o " does not exist")
       ELSE LET todo == found[1]
                done_date == IF todo.state.state = "New" THEN command_.date
                             ELSE todo.state.done_date
            IN serialize_all(<<TodoUpdated_Archived(todo.id, done_date,
                                                    command_.date)>>)

\* The block of archive_todo.
archive_todo(context_, command_) ==
    LET found == TodoContext_get(context_, command_.id)
    IN IF found = <<>>
       THEN Error("Todo with id " \o UuidText[command_.id.raw]
                  \o " does not exist")
       ELSE LET todo == found[1]
            IN IF todo.state.state = "Done"
               THEN serialize_all(<<TodoUpdated_Archived(todo.id,
                                        todo.state.done_date, command_.date)>>)
               ELSE OkOf(<<>>)

\* delete_archived_todos reading the other list: C34 rests on the events
\* being those of the archived todos.
delete_visible_todos(context_, command_) ==
    LET visible == list_visible_todos(context_)
    IN serialize_all([i \in 1..Len(visible) |-> TodoDeleted(visible[i].id)])

\* The block of delete_archived_todos: one TodoDeleted per archived todo, in
\* the order of the sorted list.
delete_archived_todos(context_, command_) ==
    LET archived == list_archived_todos(context_)
    IN serialize_all([i \in 1..Len(archived) |-> TodoDeleted(archived[i].id)])

\* The handler objects that #[command_handler] generates: the type of the
\* function's command parameter, and the function's block.
todo_parameter_type(h) ==
    CASE h = "create_todo" -> "todo::CreateTodo"
      [] h = "rename_todo" -> "todo::RenameTodo"
      [] h = "check_todo" -> "todo::CheckTodo"
      [] h = "archive_todo" -> "todo::ArchiveTodo"
      [] h = "delete_archived_todos" -> "todo::DeleteArchivedTodos"

todo_block(h, context_, command_) ==
    CASE h = "create_todo" -> create_todo(context_, command_)
      [] h = "rename_todo" -> rename_todo(context_, command_)
      [] h = "check_todo" -> check_todo(context_, command_)
      [] h = "archive_todo" -> archive_todo(context_, command_)
      [] h = "delete_archived_todos" -> delete_archived_todos(context_, command_)

\* CommandHandler::handle as generated: the downcast, then the block.
\* Command handlers of the example leave the context as they find it.
CommandHandler_handle(h, context_, boxed_) ==
    LET cast == downcast(todo_parameter_type(h), boxed_)
    IN IF cast.kind # "Ok" THEN Error_from(cast)
       ELSE todo_block(h, context_, cast.value)

\* TodoEventWriter::write: the context after the call, and what it returned.
TodoEventWriter_write(context_, event) ==
    IF event.name = NAME("TodoCreated")
    THEN LET created == deserialize("TodoCreated", event)
         IN IF created.kind # "Ok"
            THEN [self |-> context_, result |-> Error_from(created)]
            ELSE TodoContext_add(context_, Todo_new(created.value))
    ELSE IF event.name = NAME("TodoUpdated")
    THEN LET updated == deserialize("TodoUpdated", event)
         IN IF updated.kind # "Ok"
            THEN [self |-> context_, result |-> Error_from(updated)]
            ELSE LET found == TodoContext_get(context_, updated.value.id)
                 IN IF found = <<>> THEN [self |-> context_, result |-> Ok]
                    ELSE TodoContext_update(context_,
                             Todo_apply(found[1], updated.value))
    ELSE LET deleted == deserialize("TodoDeleted", event)
         IN IF deleted.kind # "Ok"
            THEN [self |-> context_, result |-> Error_from(deleted)]
            ELSE [self |-> TodoContext_delete(context_, deleted.value.id),
                  result |-> Ok]

\* usize -= 1.  Below zero the checked build panics and the unchecked one
\* wraps: a counter below zero stands for that number modulo 2^64.
usize_decrement(n) ==
    IF n # 0 THEN {[panic |-> FALSE, value |-> n - 1]}
    ELSE {[panic |-> TRUE, value |-> n], [panic |-> FALSE, value |-> n - 1]}

\* usize += 1, which overflows from usize::MAX (written -1) to 0.
usize_increment(n) ==
    IF n # 0 - 1 THEN {[panic |-> FALSE, value |-> n + 1]}
    ELSE {[panic |-> TRUE, value |-> n], [panic |-> FALSE, value |-> n + 1]}

\* What an event handler's block does: the context it leaves, whether it
\* panicked, and the commands it returned.
BlockOutcome(context_, panicked) ==
    [self |-> context_, panic |-> panicked, result |-> Ok, out |-> <<>>]

\* The block of update_summary_on_todo_created.
update_summary_on_todo_created(context_, event) ==
    LET summary == TodoContext_summary(context_)
    IN {IF i.panic THEN BlockOutcome(context_, TRUE)
        ELSE BlockOutcome(save_summary(context_,
                 [summary EXCEPT !.new = i.value]), FALSE) :
           i \in usize_increment(summary.new)}

\* The block of update_summary_on_todo_updated.
update_summary_on_todo_updated(context_, event) ==
    LET summary == TodoContext_summary(context_)
    IN CASE event.variant = "Done" ->
              {IF d.panic \/ i.panic THEN BlockOutcome(context_, TRUE)
               ELSE BlockOutcome(save_summary(context_,
                        [summary EXCEPT !.new = d.value, !.done = i.value]),
                        FALSE) :
                  d \in usize_decrement(summary.new),
                  i \in usize_increment(summary.done)}
         [] event.variant = "Archived" ->
              {IF d.panic \/ i.panic THEN BlockOutcome(context_, TRUE)
               ELSE BlockOutcome(save_summary(context_,
                        [summary EXCEPT !.done = d.value, !.archived = i.value]),
                        FALSE) :
                  d \in usize_decrement(summary.done),
                  i \in usize_increment(summary.archived)}
         [] event.variant = "Renamed" ->
              {BlockOutcome(save_summary(context_, summary), FALSE)}

\* The block of update_summary_on_todo_deleted.
update_summary_on_todo_deleted(context_, event) ==
    LET summary == TodoContext_summary(context_)
    IN {IF d.panic THEN BlockOutcome(context_, TRUE)
        ELSE BlockOutcome(save_summary(context_,
                 [summary EXCEPT !.archived = d.value]), FALSE) :
           d \in usize_decrement(summary.archived)}

\* The handler objects that #[event_handler] generates without arguments:
\* the type of the function's event parameter.
todo_event_type(g) ==
    CASE g = "update_summary_on_todo_created" -> "TodoCreated"
      [] g = "update_summary_on_todo_updated" -> "TodoUpdated"
      [] g = "update_summary_on_todo_deleted" -> "TodoDeleted"

\* EventHandler::handle as generated: event.clone().deserialize()?, then
\* the block.
EventHandler_handle(g, context_, event) ==
    LET typed == deserialize(todo_event_type(g), event)
    IN IF typed.kind # "Ok"
       THEN {[self |-> context_, panic |-> FALSE,
              result |-> Error_from(typed), out |-> <<>>]}
       ELSE CASE g = "update_summary_on_todo_created" ->
                    update_summary_on_todo_created(context_, typed.value)
              [] g = "update_summary_on_todo_updated" ->
                    update_summary_on_todo_updated(context_, typed.value)
              [] g = "update_summary_on_todo_deleted" ->
                    update_summary_on_todo_deleted(context_, typed.value)

(* ----------------------- decoding under any name ---------------------- *)
\* The handler objects of the example that decode their event.
DecodingHandlers ==
    {"update_summary_on_todo_created", "update_summary_on_todo_updated",
     "update_summary_on_todo_deleted"}

\* EventHandler::handle called on a handler object with a serialized event,
\* whatever the event's name, and a context holding nothing.
Handle ==
    /\ call = NoCall
    /\ \E g \in DecodingHandlers, event \in SerializedEvents :
          Called("handle", <<g, event>>,
                 <<EventHandler_handle(g, TodoContext_default, event)>>)

DecodeNext ==
    \/ Deserialize
    \/ Handle

DecodeSpec == LibraryInit /\ [][DecodeNext]_vars

\* configuration() of the example: three event handlers and five command
\* handlers on Configuration::new().
todo_configuration ==
    command_handler(
     command_handler(
      command_handler(
       command_handler(
        command_handler(
         event_handler(
          event_handler(
           event_handler(Configuration_new, "update_summary_on_todo_created"),
           "update_summary_on_todo_updated"),
          "update_summary_on_todo_deleted"),
         "create_todo"),
        "rename_todo"),
       "check_todo"),
      "archive_todo"),
     "delete_archived_todos")

\* No command submitted yet.
NoSubmitted == [type |-> "none"]

\* TodoApp::new for a bus built from cfg: the default context, and the bus
\* CommandBus::new().configure(cfg); no call made yet.
TodoApp_new(cfg) ==
    /\ configuration = cfg
    /\ LET b == configure(CommandBus_new, cfg)
       IN /\ command_handlers = b.command_handlers
          /\ event_writers = b.event_writers
          /\ event_handlers = b.event_handlers
    /\ other = IdleCall
    /\ context = TodoContext_default
    /\ pc = "idle"
    /\ commands = <<>>
    /\ command = NoCommand
    /\ events = <<>>
    /\ k = 0
    /\ j = 0
    /\ event_commands = <<>>
    /\ result = NoResult
    /\ submitted = NoSubmitted
    /\ ctx0 = TodoContext_default
    /\ nextId = 1
    /\ emitted = 0
    /\ trace = <<>>
    /\ call = NoCall

\* One invocation of the example's code, as recorded in the trace: the
\* object invoked, the name it was looked up under, whether it returned Ok,
\* what it returned with it, and the context before and after.
TodoInvocation(kind, by, n, ok, out, before, after) ==
    [kind |-> kind, by |-> by, name |-> n, ok |-> ok, out |-> out,
     before |-> before, after |-> after]

\* TodoApp::execute is called with the command c.
TodoExecute(c) ==
    /\ pc = "idle"
    /\ submitted' = c
    /\ ctx0' = context
    /\ commands' = <<BoxedCommand_from(c)>>
    /\ trace' = <<>>
    /\ command' = NoCommand
    /\ events' = <<>>
    /\ k' = 0
    /\ j' = 0
    /\ event_commands' = <<>>
    /\ result' = NoResult
    /\ pc' = "loop"
    /\ UNCHANGED <<bus, call, configuration, other, context, nextId, emitted>>

\* The front command is popped, its handler looked up and invoked; an error
\* of the lookup or of the handler is returned by `?` as the example's Error.
TodoHandleCommand ==
    /\ pc = "loop"
    /\ commands # <<>>
    /\ LET p == pop_front(commands)
           found == get_command_handler(p.command.name)
       IN /\ command' = p.command
          /\ commands' = p.rest
          /\ IF is_err(found)
             THEN /\ Abort(Error_from(found.err), context)
                  /\ events' = <<>>
                  /\ k' = 0
                  /\ UNCHANGED trace
             ELSE LET o == CommandHandler_handle(found.handler, context,
                                                 p.command)
                  IN /\ trace' = Append(trace,
                          TodoInvocation("command", found.handler,
                              p.command.name, o.kind = "Ok",
                              IF o.kind = "Ok" THEN o.value ELSE <<>>,
                              context, context))
                     /\ IF o.kind # "Ok"
                        THEN /\ Abort(o, context)
                             /\ events' = <<>>
                             /\ k' = 0
                        ELSE /\ events' = o.value
                             /\ k' = 1
                             /\ pc' = next_event(o.value, 1)
                             /\ UNCHANGED <<context, result>>
    /\ UNCHANGED <<bus, call, configuration, other, j, event_commands,
                   submitted, ctx0, nextId, emitted>>

\* handle_event begins: write_event(context, &event), by the writer found
\* under the event's name.
TodoWriteEvent ==
    /\ pc = "write"
    /\ LET event == events[k]
           found == get(event_writers, event.name)
       IN IF found = <<>>
          THEN /\ no_writer_outcome(event.name).ok
               /\ event_commands' = <<>>
               /\ j' = 1
               /\ pc' = "fan"
               /\ UNCHANGED <<context, result, trace>>
          ELSE \E w \in {TodoEventWriter_write(context, event)} :
                  /\ trace' = Append(trace,
                       TodoInvocation("write", found[1], event.name,
                           w.result = Ok, <<>>, context, w.self))
                  /\ IF w.result # Ok
                     THEN /\ Abort(w.result, w.self)
                          /\ UNCHANGED <<j, event_commands>>
                     ELSE /\ context' = w.self
                          /\ event_commands' = <<>>
                          /\ j' = 1
                          /\ pc' = "fan"
                          /\ UNCHANGED result
    /\ UNCHANGED <<bus, call, configuration, other, commands, command, events,
                   k, submitted, ctx0, nextId, emitted>>

\* The next event handler registered under the event's name is invoked.  A
\* panic of its block unwinds through execute: the call never returns.
TodoHandleEvent ==
    /\ pc = "fan"
    /\ j <= Len(handlers_of(events[k].name))
    /\ LET event == events[k]
           g == handlers_of(event.name)[j]
       IN \E o \in EventHandler_handle(g, context, event) :
            /\ trace' = Append(trace,
                 TodoInvocation("event", g, event.name,
                     ~o.panic /\ o.result = Ok, o.out, context, o.self))
            /\ IF o.panic
               THEN /\ pc' = "panicked"
                    /\ context' = o.self
                    /\ UNCHANGED <<result, j, event_commands>>
               ELSE IF o.result # Ok
               THEN /\ Abort(o.result, o.self)
                    /\ UNCHANGED <<j, event_commands>>
               ELSE /\ context' = o.self
                    /\ event_commands' = vec_extend(event_commands, o.out)
                    /\ j' = j + 1
                    /\ UNCHANGED <<pc, result>>
    /\ UNCHANGED <<bus, call, configuration, other, commands, command, events,
                   k, submitted, ctx0, nextId, emitted>>

\* handle_event returns Ok(commands): commands.extend(..), then the next event.
TodoExtendQueue ==
    /\ pc = "fan"
    /\ j > Len(handlers_of(events[k].name))
    /\ commands' = queue_extend(commands, event_commands)
    /\ event_commands' = <<>>
    /\ k' = k + 1
    /\ pc' = next_event(events, k + 1)
    /\ UNCHANGED <<bus, call, configuration, other, context, command, events,
                   j, result, submitted, ctx0, nextId, emitted, trace>>

\* The caller has the result: the call's frame is gone.
TodoReturn ==
    /\ pc = "done"
    /\ pc' = "idle"
    /\ commands' = <<>>
    /\ command' = NoCommand
    /\ events' = <<>>
    /\ k' = 0
    /\ j' = 0
    /\ event_commands' = <<>>
    /\ result' = NoResult
    /\ submitted' = NoSubmitted
    /\ ctx0' = context
    /\ trace' = <<>>
    /\ UNCHANGED <<bus, call, configuration, other, context, nextId, emitted>>

\* The example's configuration with its writer registered for the names it
\* declares.
todo_configuration_written ==
    event_writer(todo_configuration, "TodoEventWriter")

\* A bus that holds the example's writer, called again and again.
StoreInit == TodoApp_new(todo_configuration_written)

StoreNext ==
    \/ \E c \in TodoCommands : TodoExecute(c)
    \/ ReturnOk
    \/ TodoHandleCommand
    \/ TodoWriteEvent
    \/ TodoHandleEvent
    \/ TodoExtendQueue
    \/ TodoReturn

StoreSpec == StoreInit /\ [][StoreNext]_vars

\* What the caller of TodoApp::execute keeps of a call: the command, what
\* the call returned, the invocations made, the context before and after.
Completed ==
    [command |-> submitted, result |-> result, trace |-> trace,
     before |-> ctx0, after |-> context]

\* TodoApp::execute is called once more.
AppExecute(c) ==
    /\ Len(call.args) < MaxCalls
    /\ TodoExecute(c)

\* The caller has the result, and notes the call down.
AppReturn ==
    /\ pc = "done"
    /\ pc' = "idle"
    /\ call' = [fn |-> "execute", args |-> Append(call.args, Completed),
                ret |-> <<>>]
    /\ commands' = <<>>
    /\ command' = NoCommand
    /\ events' = <<>>
    /\ k' = 0
    /\ j' = 0
    /\ event_commands' = <<>>
    /\ result' = NoResult
    /\ submitted' = NoSubmitted
    /\ ctx0' = context
    /\ trace' = <<>>
    /\ UNCHANGED <<bus, configuration, other, context, nextId, emitted>>

\* TodoApp as the example builds it, called up to MaxCalls times.
AppInit == TodoApp_new(todo_configuration)

AppNext ==
    \/ \E c \in TodoCommands : AppExecute(c)
    \/ ReturnOk
    \/ TodoHandleCommand
    \/ TodoWriteEvent
    \/ TodoHandleEvent
    \/ TodoExtendQueue
    \/ AppReturn

AppSpec == AppInit /\ [][AppNext]_vars

(* ------------------------- reading the trace -------------------------- *)
Registered(n) == n \in DOMAIN command_handlers
HasWriter(n) == n \in DOMAIN event_writers

\* The ordinals of the commands handled so far, in the order of handling.
CommandEntries == SelectSeq(trace, LAMBDA x : x.kind = "command")
HandledIds == [i \in 1..Len(CommandEntries) |-> CommandEntries[i].cmd]

\* Where in the trace command c was handled, and the batch it returned.
HandledAt(c) ==
    CHOOSE x \in 1..Len(trace) : trace[x].kind = "command" /\ trace[x].cmd = c
Batch(c) == trace[HandledAt(c)].out

\* The event named n, event e of command c's batch, was written (when its
\* name has a writer) and delivered to every handler of its name, all before
\* trace index i.
Dispatched(c, e, n, i) ==
    LET hs == handlers_of(n)
    IN /\ HasWriter(n) =>
            \E x \in 1..(i - 1) :
                /\ trace[x].cmd = c /\ trace[x].ev = e /\ trace[x].kind = "write"
                /\ trace[x].by = event_writers[n] /\ trace[x].ok
       /\ \A h \in 1..Len(hs) :
            \E x \in 1..(i - 1) :
                /\ trace[x].cmd = c /\ trace[x].ev = e /\ trace[x].h = h
                /\ trace[x].kind = "event" /\ trace[x].by = hs[h] /\ trace[x].ok

EventDone(c, e, i) == Dispatched(c, e, Batch(c)[e], i)

Drained(c, i) ==
    LET b == Batch(c) IN \A e \in 1..Len(b) : Dispatched(c, e, b[e], i)

\* The event-handler invocations made for event e of command c, in order.
FanOut(c, e) ==
    SelectSeq(trace, LAMBDA x : x.kind = "event" /\ x.cmd = c /\ x.ev = e)

RECURSIVE Concat(_)
\* The batches returned by a sequence of invocations, one after the other.
Concat(entries) ==
    IF entries = <<>> THEN <<>> ELSE Head(entries).out \o Concat(Tail(entries))

Names(cmds) == [i \in 1..Len(cmds) |-> cmds[i].name]

(* ------------------------------- claims ------------------------------- *)

\* C1: within one execute call the commands are handled in first-in-first-out
\* order: the submitted command first, every follow-up command behind all the
\* commands already pending, and none handled before one that entered earlier.
\* The commands are numbered as they enter the queue: the handled ones are
\* 1, 2, .. in that order and the queue holds the next ordinals, in order.
C1_Fifo ==
    LET handled == CommandEntries
    IN /\ \A i \in 1..Len(handled) : handled[i].cmd = i
       /\ \A i \in 1..Len(commands) : commands[i].id = command.id + i
       /\ nextId = command.id + Len(commands) + 1
       /\ Len(handled) >= 1 => handled[1].name = submitted

C1_Witness ==
    /\ Len(HandledIds) >= 3
    /\ Len(commands) >= 1

\* C2: dispatch is breadth-first: when a follow-up command is handled, every
\* event of the batch of the command it comes from has been written and
\* delivered to all its handlers.  Stated of the command the loop is at: each
\* handled command is that command in the states that follow its handling.
C2_BreadthFirst ==
    command.parent > 0 =>
        \A i \in 1..Len(trace) :
            (trace[i].cmd = command.id /\ trace[i].kind = "command") =>
                Drained(command.parent, i)

C2_Witness ==
    \E i \in 1..Len(trace) :
        /\ trace[i].kind = "command"
        /\ trace[i].parent > 0
        /\ Len(Batch(trace[i].parent)) = 2

\* C3: in the pending queue the follow-up commands of an earlier event of a
\* batch stand before those of a later event of the same batch, and the
\* follow-up commands of a command handled earlier stand before those of a
\* command handled later.
C3_Ordering ==
    \A a \in 1..Len(commands) : \A b \in 1..Len(commands) :
        a < b =>
            \/ HandledAt(commands[a].parent) < HandledAt(commands[b].parent)
            \/ /\ commands[a].parent = commands[b].parent
               /\ commands[a].ev <= commands[b].ev

\* Command 1 emitted two events; the follow-up of the first is being handled
\* and has enqueued a follow-up behind the follow-up of the second.
C3_Witness ==
    /\ Len(commands) = 2
    /\ command.parent = 1 /\ command.ev = 1
    /\ commands[1].parent = 1 /\ commands[1].ev = 2
    /\ commands[2].parent = command.id

\* C4: an event's writer has returned Ok before any handler of the event is
\* invoked, and event k of a batch is written and delivered to all its
\* handlers before anything is done for event k+1.
C4_WriteThenFanOut ==
    /\ \A i \in 1..Len(trace) :
        /\ (trace[i].kind = "event" /\ HasWriter(trace[i].name)) =>
              \E x \in 1..(i - 1) :
                  /\ trace[x].kind = "write" /\ trace[x].ok
                  /\ trace[x].cmd = trace[i].cmd /\ trace[x].ev = trace[i].ev
                  /\ trace[x].by = event_writers[trace[i].name]
        /\ (i > 1 /\ trace[i].cmd = trace[i - 1].cmd) =>
              trace[i].ev >= trace[i - 1].ev
    /\ (pc \in {"write", "fan"} /\ k > 1) =>
          EventDone(command.id, k - 1, Len(trace) + 1)
    /\ pc = "fan" =>
          \A i \in 1..Len(trace) : trace[i].cmd = command.id => trace[i].ev <= k
    /\ pc = "write" =>
          \A i \in 1..Len(trace) : trace[i].cmd = command.id => trace[i].ev < k

C4_Witness ==
    \E x, y, z \in 1..Len(trace) :
        /\ x < y /\ y < z
        /\ trace[x].kind = "write" /\ trace[x].ev = 1
        /\ trace[y].kind = "event" /\ trace[y].ev = 1 /\ trace[y].cmd = trace[x].cmd
        /\ trace[z].kind = "write" /\ trace[z].ev = 2 /\ trace[z].cmd = trace[x].cmd

\* C5: an event whose name has N handlers is delivered to all N in the order
\* of the registry's list, and the commands that enter the queue for it are
\* the batches the handlers returned, concatenated in handler order.
C5_FanOut ==
    /\ pc = "fan" =>
          LET hs == handlers_of(events[k])
              done == FanOut(command.id, k)
          IN /\ Len(done) = j - 1
             /\ \A h \in 1..Len(done) : done[h].by = hs[h] /\ done[h].h = h
             /\ Names(event_commands) = Concat(done)
    /\ \A e \in 1..(k - 1) :
          LET hs == handlers_of(events[e])
              done == FanOut(command.id, e)
              queued == SelectSeq(commands,
                            LAMBDA c : c.parent = command.id /\ c.ev = e)
          IN /\ Len(done) = Len(hs)
             /\ \A h \in 1..Len(hs) : done[h].by = hs[h] /\ done[h].ok
             /\ Names(queued) = Concat(done)

C5_Witness ==
    /\ k = 2
    /\ Len(handlers_of(events[1])) = 2
    /\ LET done == FanOut(command.id, 1)
       IN /\ Len(done) = 2
          /\ done[1].out # <<>> /\ done[2].out # <<>>
          /\ done[1].out # done[2].out
    /\ Len(commands) >= 2

\* C6: execute called with a command whose name has no handler returns
\* MissingCommandHandler naming the command, invokes nothing and leaves the
\* context as it received it.
C6_MissingHandler ==
    (pc = "done" /\ ~Registered(submitted)) =>
        /\ result = MissingCommandHandlerError(submitted)
        /\ trace = <<>>
        /\ context = ctx0

C6_Witness ==
    /\ pc = "done"
    /\ ~Registered(submitted)
    /\ result.kind = "MissingCommandHandler"

\* C7: a follow-up command without handler ends the call when it reaches the
\* front of the queue, and only then: the commands that entered before it
\* have been handled and their batches drained, execute returns
\* MissingCommandHandler naming it, and the commands behind it stay unhandled.
C7_MissingFollowUp ==
    /\ (command # NoCommand /\ ~Registered(command.name)) =>
          (pc = "done" /\ result = MissingCommandHandlerError(command.name))
    /\ (pc = "done" /\ result.kind = "MissingCommandHandler") =>
          /\ result.name = command.name
          /\ ~Registered(command.name)
          /\ LET handled == HandledIds
             IN /\ Len(handled) = command.id - 1
                /\ \A c \in 1..(command.id - 1) :
                      handled[c] = c /\ Drained(c, Len(trace) + 1)
          /\ \A i \in 1..Len(trace) : trace[i].ok /\ trace[i].cmd < command.id
          /\ \A i \in 1..Len(commands) : commands[i].id > command.id

C7_Witness ==
    /\ pc = "done"
    /\ result.kind = "MissingCommandHandler"
    /\ command.id = 3
    /\ commands # <<>>

\* C8: the first error returned by a command handler, a writer or an event
\* handler ends the call: it is the last invocation of the call and execute
\* returns that very error.
C8_FirstErrorAborts ==
    /\ \A i \in 1..Len(trace) :
          ~trace[i].ok =>
              /\ i = Len(trace)
              /\ pc = "done"
              /\ result = DomainError(trace[i].by)
    /\ (pc = "done" /\ result.kind \notin {"Ok", "MissingCommandHandler"}) =>
          /\ trace # <<>>
          /\ ~trace[Len(trace)].ok
          /\ result = DomainError(trace[Len(trace)].by)

\* The first of two handlers of the first of two events failed, with a
\* command pending.
C8_Witness ==
    /\ pc = "done"
    /\ result.kind = "Domain"
    /\ trace[Len(trace)].kind = "event"
    /\ j = 1
    /\ Len(handlers_of(events[k])) = 2
    /\ k < Len(events)
    /\ commands # <<>>

\* C9: there is no rollback: when execute returns an error the context holds,
\* after what it held when the call began, the mark of every invocation that
\* completed before the failing step, in order.
C9_NoRollback ==
    (pc = "done" /\ result # Ok) =>
        LET completed == SelectSeq(trace, LAMBDA x : x.ok)
        IN context = ctx0 \o [i \in 1..Len(completed) |-> completed[i].by]

C9_Witness ==
    /\ pc = "done"
    /\ result.kind = "Domain"
    /\ Len(context) >= Len(ctx0) + 3

\* C10: an event whose name has no writer does not make execute fail: the
\* write step invokes nothing, leaves the context as it is and goes on to the
\* event's handlers, which are invoked in the order of their list.
C10_Step ==
    (pc = "write" /\ ~HasWriter(events[k])) =>
        /\ pc' = "fan"
        /\ j' = 1
        /\ context' = context
        /\ trace' = trace
        /\ result' = result

C10_Delivered ==
    /\ \A i \in 1..Len(trace) :
          trace[i].kind = "write" => HasWriter(trace[i].name)
    /\ \A e \in 1..(k - 1) :
          ~HasWriter(events[e]) =>
              LET hs == handlers_of(events[e])
                  done == FanOut(command.id, e)
              IN /\ Len(done) = Len(hs)
                 /\ \A h \in 1..Len(hs) : done[h].by = hs[h] /\ done[h].ok

\* C10: every write step of an event without writer is as C10_Step says, and
\* the handlers of such events are invoked as C10_Delivered says.
C10_NoWriterTolerance == [][C10_Step]_vars /\ []C10_Delivered

C10_Witness ==
    /\ pc = "done"
    /\ result = Ok
    /\ \E i \in 1..Len(trace) :
          /\ trace[i].kind = "event"
          /\ ~HasWriter(trace[i].name)
          /\ \A x \in 1..Len(trace) :
                (trace[x].cmd = trace[i].cmd /\ trace[x].ev = trace[i].ev) =>
                    trace[x].kind = "event"

(* ---------------------------- termination ---------------------------- *)
\* No handler or writer has returned an error so far.
NoHandlerError == \A i \in 1..Len(trace) : trace[i].ok
\* Every command popped so far has a handler.
NoMissingHandler == command = NoCommand \/ Registered(command.name)

\* C11 as stated: once execute has returned, no handler or writer having
\* returned an error, it has returned Ok(()) and the queue is empty.
C11_AsStated ==
    (pc = "done" /\ NoHandlerError) => (result = Ok /\ commands = <<>>)

\* C11: execute, once called, returns (the cascade is finite: the bounds);
\* when no handler or writer returned an error and every command that reached
\* the front of the queue had a handler, it returns Ok(()) with an empty
\* queue; and it returns Ok(()) only when the queue is empty.
C11_Quiescence ==
    /\ (pc = "loop") ~>
          (pc = "done" /\ ((NoHandlerError /\ NoMissingHandler) =>
                              (result = Ok /\ commands = <<>>)))
    /\ []((pc = "done" /\ result = Ok) => commands = <<>>)

\* Ok(()) after a cascade of three commands.
C11_Witness ==
    /\ pc = "done"
    /\ result = Ok
    /\ commands = <<>>
    /\ Len(HandledIds) >= 3

(* ---------------------------- feedback loop --------------------------- *)
\* execute is running for a command that has a handler, and the handler of
\* its event re-emits it for ever.
FeedsBack == pc # "idle" /\ Registered(submitted) /\ context = <<"always">>

\* C12: there is no cycle detection.  When the event handler always re-emits
\* the command that triggered it, execute never returns, the queue is not
\* empty whenever the loop looks at it, and the command's name is handled
\* again and again.
C12_NoCycleDetection ==
    /\ [](FeedsBack => pc # "done")
    /\ []((FeedsBack /\ pc = "loop") => commands # <<>>)
    /\ FeedsBack ~>
          (pc = "loop" /\ commands # <<>> /\ Head(commands).name = submitted)
    /\ FeedsBack ~> (pc # "loop" /\ command.name = submitted)

\* The event handler has answered with the command once more, and the loop
\* is back at the queue with a second event of the batch behind it.
C12_Witness ==
    /\ FeedsBack
    /\ pc = "loop"
    /\ command.name = submitted
    /\ commands # <<>>
    /\ Len(events) = 2

(* ----------------------------- exactly once --------------------------- *)
\* The trace indices of the invocations of the given kind made for event e of
\* command c (for the command itself: kind "command", e = 0).
Invocations(kind, c, e) ==
    {i \in 1..Len(trace) :
        trace[i].kind = kind /\ trace[i].cmd = c /\ trace[i].ev = e}

\* C13: when execute has returned Ok, every command that entered the queue
\* has been handled exactly once, by the handler registered for its name;
\* every event of every batch has been passed to the writer of its name once
\* (never, when the name has no writer); and it has been delivered exactly
\* once to each entry of its name's handler list.
C13_ExactlyOnce ==
    (pc = "done" /\ result = Ok) =>
        \A c \in 1..(nextId - 1) :
            /\ Cardinality(Invocations("command", c, 0)) = 1
            /\ LET at == trace[HandledAt(c)]
               IN /\ at.by = command_handlers[at.name]
                  /\ \A e \in 1..Len(at.out) :
                        LET hs == handlers_of(at.out[e])
                            fan == Invocations("event", c, e)
                        IN /\ Cardinality(Invocations("write", c, e)) =
                                 (IF HasWriter(at.out[e]) THEN 1 ELSE 0)
                           /\ Cardinality(fan) = Len(hs)
                           /\ \A h \in 1..Len(hs) :
                                 \E i \in fan :
                                     trace[i].h = h /\ trace[i].by = hs[h]

\* Ok(()) after three commands, one of whose events had a writer and two
\* handlers.
C13_Witness ==
    /\ pc = "done"
    /\ result = Ok
    /\ nextId >= 4
    /\ \E i \in 1..Len(trace) :
          trace[i].kind = "event" /\ trace[i].h = 2 /\ HasWriter(trace[i].name)

(* ------------------------------- routing ------------------------------ *)
\* The elements of a sequence.
Range(seq) == {seq[i] : i \in 1..Len(seq)}

\* C14: routing is by name only.  A command handler is invoked only for a
\* command whose name is the one it declares and is registered under; a
\* writer or an event handler only for an event whose name is among those it
\* declares and under which the registry holds it.
C14_Routing ==
    \A i \in 1..Len(trace) :
        LET x == trace[i]
        IN /\ x.kind = "command" =>
                /\ command_name(x.by) = x.name
                /\ get(command_handlers, x.name) = <<x.by>>
           /\ x.kind = "write" =>
                /\ x.name \in Range(writer_event_names(x.by))
                /\ get(event_writers, x.name) = <<x.by>>
           /\ x.kind = "event" =>
                /\ x.name \in Range(handler_event_names(x.by))
                /\ x.by \in Range(handlers_of(x.name))

\* An "e2" has been delivered (to "g2": "g1" is registered for "e1" only),
\* after an "e1" was written and delivered to both.
C14_Witness ==
    /\ \E i \in 1..Len(trace) :
          trace[i].kind = "event" /\ trace[i].name = "e2"
    /\ \E i \in 1..Len(trace) :
          trace[i].kind = "event" /\ trace[i].name = "e1" /\ trace[i].by = "g1"
    /\ \E i \in 1..Len(trace) : trace[i].kind = "write"

(* --------------------------- the queue is local ----------------------- *)
\* The ordinals of the commands handled so far by the running call.
HandledSet == {trace[i].cmd : i \in 1..Len(trace)}

\* A call begins: its queue holds the submitted command and nothing else.
C15_Begin ==
    (pc = "idle" /\ pc' = "loop") =>
        /\ Len(commands') = 1
        /\ commands'[1].name = submitted'
        /\ commands'[1].parent = 0
        /\ commands'[1].id = nextId
        /\ events' = <<>>
        /\ event_commands' = <<>>

\* The commands that were pending when the previous call returned are not in
\* the queue of the running call, and the running call has handled none.
C15_Dropped ==
    (other.pc = "done" /\ pc \in {"loop", "write", "fan", "done"}) =>
        \A i \in 1..Len(other.commands) :
            LET c == other.commands[i]
            IN /\ c.id \notin HandledSet
               /\ c.id # command.id
               /\ \A x \in 1..Len(commands) : commands[x].id # c.id

\* C15: the pending queue is local to one execute call: every call begins
\* with the submitted command alone in its queue, and the commands pending
\* when a call returned an error are handled by no later call.
C15_QueueIsLocal == [][C15_Begin]_vars /\ []C15_Dropped

\* A call has returned an error with commands pending, and the call made
\* after it has handled its command and a follow-up.
C15_Witness ==
    /\ other.pc = "done"
    /\ other.result.kind = "Domain"
    /\ other.commands # <<>>
    /\ pc = "done"
    /\ Len(HandledIds) >= 2

(* ----------------------- the registries are read-only ----------------- *)
\* No step of execute changes a registry.
C16_Step ==
    /\ command_handlers' = command_handlers
    /\ event_writers' = event_writers
    /\ event_handlers' = event_handlers

\* The registries are those the bus was configured with.
C16_Snapshot ==
    LET b == configure(CommandBus_new, configuration)
    IN /\ command_handlers = b.command_handlers
       /\ event_writers = b.event_writers
       /\ event_handlers = b.event_handlers

\* C16: execute never modifies the registries of the bus: the command-handler
\* map, the writer map and the event-handler lists are the same before,
\* during and after every call, whatever it returns.
C16_RegistriesUnchanged == [][C16_Step]_vars /\ []C16_Snapshot

\* One call has returned Ok and the next one an error, after both had their
\* events written and delivered.
C16_Witness ==
    /\ other.pc = "done"
    /\ other.result = Ok
    /\ Len(other.trace) >= 3
    /\ pc = "done"
    /\ result.kind = "Domain"
    /\ Len(trace) >= 3
    /\ DOMAIN event_handlers # {}

(* --------------------------- calls do not interfere ------------------- *)
\* execute run alone, as a function of what the handlers and writers
\* return: the call begins at Alone(n, ctx) and SoloRun goes as far as the
\* outcomes `outs`, taken in order, let it.  It keeps the invocations made,
\* the context and the result.
Alone(n, ctx) ==
    [pc |-> "loop", q |-> <<n>>, evs |-> <<>>, k |-> 0, j |-> 0, ec |-> <<>>,
     idx |-> 1, inv |-> <<>>, ctx |-> ctx, res |-> NoResult]

\* The machine st after one more invocation, of `by` for `name`, has been
\* made: the next outcome is taken and the invocation recorded.
SoloInvoke(st, o, kind, by, name) ==
    [st EXCEPT !.idx = @ + 1,
               !.inv = Append(@, <<kind, by, name>>),
               !.ctx = @ \o o.mark,
               !.pc = IF o.ok THEN @ ELSE "done",
               !.res = IF o.ok THEN @ ELSE DomainError(by)]

RECURSIVE SoloRun(_, _)
SoloRun(st, outs) ==
    LET waits == st.idx > Len(outs)
    IN CASE st.pc = "done" -> st
         [] st.pc = "loop" ->
              IF st.q = <<>>
              THEN [st EXCEPT !.pc = "done", !.res = Ok]
              ELSE LET found == get_command_handler(Head(st.q))
                   IN IF is_err(found)
                      THEN [st EXCEPT !.q = Tail(@), !.pc = "done",
                                      !.res = found.err]
                      ELSE IF waits THEN st
                      ELSE LET o == outs[st.idx]
                               st1 == SoloInvoke(st, o, "command",
                                          found.handler, Head(st.q))
                           IN IF is_err(o) THEN st1
                              ELSE SoloRun([st1 EXCEPT
                                              !.q = Tail(@),
                                              !.evs = o.out,
                                              !.k = 1,
                                              !.pc = next_event(o.out, 1)],
                                           outs)
         [] st.pc = "write" ->
              LET found == get(event_writers, st.evs[st.k])
              IN IF found = <<>>
                 THEN SoloRun([st EXCEPT !.pc = "fan", !.j = 1, !.ec = <<>>],
                              outs)
                 ELSE IF waits THEN st
                 ELSE LET o == outs[st.idx]
                          st1 == SoloInvoke(st, o, "write", found[1],
                                            st.evs[st.k])
                      IN IF is_err(o) THEN st1
                         ELSE SoloRun([st1 EXCEPT !.pc = "fan", !.j = 1,
                                                  !.ec = <<>>],
                                      outs)
         [] st.pc = "fan" ->
              LET hs == handlers_of(st.evs[st.k])
              IN IF st.j > Len(hs)
                 THEN SoloRun([st EXCEPT !.q = queue_extend(@, st.ec),
                                         !.ec = <<>>,
                                         !.k = @ + 1,
                                         !.pc = next_event(st.evs, st.k + 1)],
                              outs)
                 ELSE IF waits THEN st
                 ELSE LET o == outs[st.idx]
                          st1 == SoloInvoke(st, o, "event", hs[st.j],
                                            st.evs[st.k])
                      IN IF is_err(o) THEN st1
                         ELSE SoloRun([st1 EXCEPT
                                         !.ec = vec_extend(@, o.out),
                                         !.j = @ + 1],
                                      outs)

\* The call whose registers are r went as execute goes alone with the same
\* outcomes: it made the same invocations in the same order, its context is
\* in the same state, and once it has returned its result is the same.
SoloLike(r) ==
    r.pc # "idle" =>
        LET solo == SoloRun(Alone(r.submitted, r.ctx0), r.trace)
        IN /\ solo.idx = Len(r.trace) + 1
           /\ solo.inv = [i \in 1..Len(r.trace) |->
                            <<r.trace[i].kind, r.trace[i].by, r.trace[i].name>>]
           /\ solo.ctx = r.context
           /\ r.pc = "done" => (solo.pc = "done" /\ solo.res = r.result)

\* C17: two execute calls running concurrently on one bus, each with its own
\* context, do not interfere: however their steps interleave, each call
\* makes the invocations, returns the result and leaves its context in the
\* state of a call that runs alone with the same outcomes of the handlers.
\* Stated of the calls once no call is under way: the trace of a call holds
\* all its invocations.
C17_NoInterference ==
    (pc = "done" /\ other.pc \in {"idle", "done"}) =>
        (SoloLike(Registers) /\ SoloLike(other))

\* Both calls have returned, one Ok and one with an error, and each made
\* invocations between two invocations of the other.
C17_Witness ==
    /\ pc = "done"
    /\ other.pc = "done"
    /\ result = Ok
    /\ other.result.kind = "Domain"
    /\ Len(trace) >= 3
    /\ Len(other.trace) >= 2
    /\ trace[1].cmd < other.trace[1].cmd
    /\ \E i \in 1..Len(trace) :
          trace[i].kind = "command" /\ trace[i].cmd > other.trace[1].cmd

(* ------------------------ one invocation at a time -------------------- *)
\* A step of a call makes at most one invocation; the invocation is given
\* the context as the previous one left it and has returned, its effect on
\* the context complete, when the step ends; a step that invokes nothing
\* leaves the context alone.
C18_Step ==
    pc # "idle" =>
        \/ trace' = trace /\ context' = context
        \/ /\ Len(trace') = Len(trace) + 1
           /\ SubSeq(trace', 1, Len(trace)) = trace
           /\ context' = context \o trace'[Len(trace')].mark

\* The context holds the effects of the invocations made so far, one after
\* the other in the order of the invocations.
C18_InSequence ==
    context = ctx0 \o Concat([i \in 1..Len(trace) |-> [out |-> trace[i].mark]])

\* C18: within one execute call at most one handler or writer invocation is
\* in progress at any time: each begins after the previous one has returned,
\* so that no two of them have the context at once.
C18_OneAtATime == [][C18_Step]_vars /\ []C18_InSequence

\* An event has been written and then delivered to its two handlers, one
\* after the other.
C18_Witness ==
    \E i \in 1..Len(trace) :
        /\ i + 2 <= Len(trace)
        /\ trace[i].kind = "write"
        /\ trace[i + 1].kind = "event" /\ trace[i + 1].h = 1
        /\ trace[i + 2].kind = "event" /\ trace[i + 2].h = 2
        /\ trace[i + 1].by # trace[i + 2].by

(* ----------------------------- registration -------------------------- *)
\* The step is a registration of the given kind.
Registering(kind) ==
    /\ Len(trace') = Len(trace) + 1
    /\ trace'[Len(trace')].kind = kind

\* The command handlers registered so far under the name n, in order.
RegisteredUnder(n) ==
    SelectSeq(trace,
        LAMBDA r : r.kind = "command_handler" /\ command_name(r.by) = n)

\* Every name has the handler registered last under it, and only the names
\* under which a handler was registered have one.
C19_LastWins ==
    /\ \A h \in CommandHandlerObjects :
          LET n == command_name(h)
              regs == RegisteredUnder(n)
          IN IF regs = <<>>
             THEN n \notin DOMAIN configuration.command_handlers
             ELSE get(configuration.command_handlers, n) = <<regs[Len(regs)].by>>
    /\ \A n \in DOMAIN configuration.command_handlers :
          RegisteredUnder(n) # <<>>

\* A command_handler registration changes the entry of the handler's name
\* and nothing else.
C19_Step ==
    Registering("command_handler") =>
        LET h == trace'[Len(trace')].by
            was == configuration.command_handlers
            is == configuration'.command_handlers
        IN /\ DOMAIN is = DOMAIN was \cup {command_name(h)}
           /\ is[command_name(h)] = h
           /\ \A n \in DOMAIN was : n # command_name(h) => is[n] = was[n]
           /\ configuration'.event_handlers = configuration.event_handlers
           /\ configuration'.event_writers = configuration.event_writers

\* C19: Configuration::command_handler keeps one handler per command name:
\* a registration under a name that has a handler replaces it, the last one
\* winning, and the handlers of the other names and the event-handler lists
\* stay as they were.
C19_CommandHandler == [][C19_Step]_vars /\ []C19_LastWins

\* "hA" was registered, then "hB", then "hA2" under the name of "hA".
C19_Witness ==
    /\ Len(trace) = 3
    /\ trace[1] = Registration("command_handler", "hA")
    /\ trace[2] = Registration("command_handler", "hB")
    /\ trace[3] = Registration("command_handler", "hA2")
    /\ configuration.command_handlers["A"] = "hA2"
    /\ configuration.command_handlers["B"] = "hB"

\* C20: Configuration::event_handler appends the handler to the list of
\* every event name it declares, creating the list when the name has none;
\* the entries the lists had stay in front, in their order, and the lists of
\* the other names, like the command handlers, stay as they were.
C20_Step ==
    Registering("event_handler") =>
        LET g == trace'[Len(trace')].by
            names == Range(handler_event_names(g))
            was == configuration.event_handlers
            is == configuration'.event_handlers
        IN /\ DOMAIN is = DOMAIN was \cup names
           /\ \A n \in names :
                 is[n] = (IF n \in DOMAIN was THEN was[n] ELSE <<>>) \o <<g>>
           /\ \A n \in DOMAIN was \ names : is[n] = was[n]
           /\ configuration'.command_handlers = configuration.command_handlers
           /\ configuration'.event_writers = configuration.event_writers

C20_EventHandler == [][C20_Step]_vars

\* "g1" was registered for "e1", then "g2" for "e1" and "e2": the list of
\* "e1" grew at its end and the list of "e2" was created.
C20_Witness ==
    /\ Len(trace) >= 2
    /\ trace[1] = Registration("event_handler", "g1")
    /\ trace[2] = Registration("event_handler", "g2")
    /\ configuration.event_handlers["e1"] = <<"g1", "g2">>
    /\ configuration.event_handlers["e2"] = <<"g2">>

(* ------------------------------- merging -------------------------------- *)
\* The handlers a configuration lists for an event name; none when the name
\* has no entry.
ListOf(cfg, n) ==
    IF n \in DOMAIN cfg.event_handlers THEN cfg.event_handlers[n] ELSE <<>>

\* r is a merged with b: under every event name the list of a followed by
\* the list of b, and the union of the command handlers where b wins.
C21_Merged(a, b, r) ==
    /\ DOMAIN r.event_handlers = DOMAIN a.event_handlers \cup DOMAIN b.event_handlers
    /\ \A n \in DOMAIN r.event_handlers :
          LET l == r.event_handlers[n]
              la == ListOf(a, n)
              lb == ListOf(b, n)
          IN /\ Len(l) = Len(la) + Len(lb)
             /\ \A i \in 1..Len(la) : l[i] = la[i]
             /\ \A i \in 1..Len(lb) : l[Len(la) + i] = lb[i]
    /\ DOMAIN r.command_handlers
          = DOMAIN a.command_handlers \cup DOMAIN b.command_handlers
    /\ \A n \in DOMAIN r.command_handlers :
          r.command_handlers[n] = IF n \in DOMAIN b.command_handlers
                                  THEN b.command_handlers[n]
                                  ELSE a.command_handlers[n]

\* C21: merging two configurations (a + b, a += b) yields, for every event
\* name, the list of a followed by the list of b (the order of each side
\* kept, the length the sum of both), and as command handlers the union of
\* both maps in which b's handler wins where a name is in both.
C21_Merge ==
    call.fn \in {"add", "add_assign"}
        => C21_Merged(call.args[1], call.args[2], call.ret[1])

\* a += b where both sides handle "e1" with different handlers, b brings a
\* list for "e2" that a lacks, and both register a handler for "A".
C21_Witness ==
    /\ call.fn = "add_assign"
    /\ call.args[1] = command_handler(event_handler(Configuration_new, "g1"), "hA")
    /\ call.args[2] = command_handler(event_handler(Configuration_new, "g2"), "hA2")
    /\ call.ret[1].event_handlers["e1"] = <<"g1", "g2">>
    /\ call.ret[1].event_handlers["e2"] = <<"g2">>
    /\ call.ret[1].command_handlers["A"] = "hA2"

(* ---------------------------- associativity ----------------------------- *)
\* C22: merging is associative: (a + b) + c and a + (b + c) have the same
\* map of command handlers and, under every event name, the same list of
\* event handlers in the same order.
C22_Associative ==
    call.fn = "add3"
        => /\ call.ret[1].command_handlers = call.ret[2].command_handlers
           /\ call.ret[1].event_handlers = call.ret[2].event_handlers

\* Three configurations that all handle "e1", the middle one alone listing
\* "e2", with handlers for "A" that differ from one to the next.
C22_Witness ==
    /\ call.fn = "add3"
    /\ \A i \in 1..3 : /\ "e1" \in DOMAIN call.args[i].event_handlers
                       /\ "A" \in DOMAIN call.args[i].command_handlers
    /\ "e2" \notin DOMAIN call.args[1].event_handlers
    /\ "e2" \in DOMAIN call.args[2].event_handlers
    /\ call.args[1].command_handlers["A"] # call.args[2].command_handlers["A"]
    /\ call.args[2].command_handlers["A"] # call.args[3].command_handlers["A"]
    /\ Len(call.ret[1].event_handlers["e1"]) = 3
    /\ call.ret[1].command_handlers["A"] = call.args[3].command_handlers["A"]

(* ------------------------- one writer per name -------------------------- *)
\* The writer each event name is left with by the call that built the
\* configuration: the writer registered last, or the one of the right-hand
\* side of the merge where it has one.
LastWriters ==
    LET was == call.args[1].event_writers
        new == IF call.fn = "event_writer"
               THEN [n \in Range(writer_event_names(call.args[2])) |-> call.args[2]]
               ELSE call.args[2].event_writers
    IN [n \in DOMAIN was \cup DOMAIN new |->
            IF n \in DOMAIN new THEN new[n] ELSE was[n]]

C24_RoundTrip ==
    call.fn = "deserialize" =>
        \A x \in ValuesOf(call.args[1]) :
            serialize(x) = OkOf(call.args[2]) => call.ret[1] = OkOf(x)

\* A TodoUpdated::Renamed went through serialize and came back whole, its
\* three fields read from the object under the variant's name.
C24_Witness ==
    LET x == TodoUpdated_Renamed(Id(2), "milk", UuidText[1])
    IN /\ call.fn = "deserialize"
       /\ call.args[1] = "TodoUpdated"
       /\ serialize(x) = OkOf(call.args[2])
       /\ call.args[2].value.kind = "Object"
       /\ call.ret[1] = OkOf(x)

(* ---------------------------- shape mismatch ---------------------------- *)
\* v holds the fields: an object with each under its name, or an array of
\* them in order.
HasFields(v, fields) ==
    \/ /\ v.kind = "Object"
       /\ \A i \in 1..Len(fields) :
             /\ fields[i][1] \in DOMAIN v.map
             /\ v.map[fields[i][1]] = fields[i][2]
    \/ v = Value_Array([i \in 1..Len(fields) |-> fields[i][2]])

\* The sequence of numbers that stands for a date.
DateValue(date) ==
    [kind |-> "Array",
     items |-> <<[kind |-> "Number", n |-> date.year],
                 [kind |-> "Number", n |-> date.ordinal]>>]

\* The stored value v has the shape of T's schema and denotes the value x.
Represents(v, x) ==
    CASE x.type = "TodoCreated" ->
            HasFields(v, << <<"id", Value_String(UuidText[x.id.raw])>>,
                            <<"name", Value_String(x.name)>> >>)
      [] x.type = "TodoUpdated" /\ x.variant = "Renamed" ->
            /\ v.kind = "Object"
            /\ DOMAIN v.map = {"Renamed"}
            /\ HasFields(v.map["Renamed"],
                         << <<"id", Value_String(UuidText[x.id.raw])>>,
                            <<"old_name", Value_String(x.old_name)>>,
                            <<"new_name", Value_String(x.new_name)>> >>)
      [] x.type = "TodoUpdated" /\ x.variant = "Done" ->
            /\ v.kind = "Object"
            /\ DOMAIN v.map = {"Done"}
            /\ v.map["Done"] = Value_Array(<<Value_String(UuidText[x.id.raw]),
                                             DateValue(x.date)>>)
      [] x.type = "TodoUpdated" /\ x.variant = "Archived" ->
            /\ v.kind = "Object"
            /\ DOMAIN v.map = {"Archived"}
            /\ HasFields(v.map["Archived"],
                         << <<"id", Value_String(UuidText[x.id.raw])>>,
                            <<"done_date", DateValue(x.done_date)>>,
                            <<"archived_date", DateValue(x.archived_date)>> >>)
      [] x.type = "TodoDeleted" -> v = Value_String(UuidText[x.id.raw])
      [] x.type = "SystemStarted" ->
            /\ ~x.time.earlier
            /\ HasFields(v, << <<"secs_since_epoch", Value_Number(x.time.secs)>>,
                               <<"nanos_since_epoch", Value_Number(x.time.nanos)>> >>)
            /\ v.kind = "Object" =>
                  DOMAIN v.map = {"secs_since_epoch", "nanos_since_epoch"}

\* C25: SerializedEvent::deserialize::<T>() returns
\* Err(Error::SerializationError) whenever the stored value does not have the
\* shape of T's schema, and what it returns with Ok is the value of T that
\* the stored value denotes: never a T made from another shape.
C25_Mismatch ==
    call.fn = "deserialize" =>
        LET matching == {x \in ValuesOf(call.args[1]) :
                            Represents(call.args[2].value, x)}
        IN /\ call.ret[1].kind \in {"Ok", "SerializationError"}
           /\ matching = {} => call.ret[1].kind = "SerializationError"
           /\ call.ret[1].kind = "Ok" => call.ret[1].value \in matching

\* An event named "todo-created" whose object has lost its id was asked for
\* as a TodoCreated: SerializationError.
C25_Witness ==
    /\ call.fn = "deserialize"
    /\ call.args[1] = "TodoCreated"
    /\ call.args[2] = SerializedEvent("todo-created",
                          Value_Object([name |-> Value_String("milk")]))
    /\ call.ret[1].kind = "SerializationError"

(* -------------------------------- boxing -------------------------------- *)
\* C26: BoxedCommand::from(c), for c of type T, has the name T::NAME, and
\* downcast::<T>() on it returns Ok with c itself.
C26_BoxAndBack ==
    /\ call.fn = "from" =>
          BoxedCommand_name(call.ret[1]) = Command_NAME(call.args[1].type)
    /\ (call.fn = "downcast" /\ call.args[2].type = call.args[1]) =>
          /\ BoxedCommand_name(call.args[3]) = Command_NAME(call.args[1])
          /\ call.ret[1] = OkOf(call.args[2])

\* An app::Alias, boxed under "A", was downcast to app::Alias and came back.
C26_Witness ==
    /\ call.fn = "downcast"
    /\ call.args[1] = "app::Alias"
    /\ call.args[2] = [type |-> "app::Alias", payload |-> 2]
    /\ call.args[3].name = "A"
    /\ call.ret[1] = OkOf(call.args[2])

(* ------------------------------ wrong type ------------------------------ *)
\* C27: downcast::<T>() on a box whose content is of another type returns
\* Err(Error::CommandDowncastError) carrying the type name of T, the type
\* asked for; it returns a Result in every case, also when the two types
\* have the same NAME.
C27_WrongType ==
    call.fn = "downcast" =>
        /\ call.ret[1].kind \in {"Ok", "CommandDowncastError"}
        /\ call.args[2].type # call.args[1] =>
              call.ret[1] = CommandDowncastError(type_name(call.args[1]))

\* An app::A, boxed under "A", was asked for as an app::Alias, whose NAME is
\* "A" too.
C27_Witness ==
    /\ call.fn = "downcast"
    /\ call.args[1] = "app::Alias"
    /\ call.args[2].type = "app::A"
    /\ call.args[3].name = Command_NAME(call.args[1])
    /\ call.ret[1] = CommandDowncastError("app::Alias")

(* ---------------------------- downcast first ---------------------------- *)
\* The front command has a handler and is not of the handler's parameter
\* type.
C28_Mismatch ==
    /\ pc = "loop"
    /\ commands # <<>>
    /\ ~is_err(get_command_handler(Head(commands).name))
    /\ content_type(Head(commands))
          # parameter_type(get_command_handler(Head(commands).name).handler)

\* C28: a handler generated by #[command_handler] downcasts the command
\* first: when the command is not of the handler's parameter type the
\* function's block does not run, the handler leaves the context as it was,
\* and execute returns the command-downcast error.
C28_Step ==
    C28_Mismatch =>
        LET h == get_command_handler(Head(commands).name).handler
        IN /\ pc' = "done"
           /\ result' = CommandDowncastError(type_name(parameter_type(h)))
           /\ context' = context
           /\ emitted' = emitted
           /\ events' = <<>>
           /\ trace' # <<>>
           /\ trace'[Len(trace')].by = h
           /\ trace'[Len(trace')].mark = <<>>
           /\ ~trace'[Len(trace')].ok

C28_DowncastFirst == [][C28_Step]_vars

\* After a call that left marks in the context, an app::Alias was submitted:
\* "hA", registered for "A", takes an app::A, and the call returned the
\* downcast error with the context as it had received it.
C28_Witness ==
    /\ pc = "done"
    /\ result = CommandDowncastError("app::A")
    /\ command.type = "app::Alias"
    /\ context # <<>>
    /\ context = ctx0

(* ----------------------------- Events::add ------------------------------ *)
\* C29: Events::add puts the serialized event at the end of the batch, the
\* events added before staying in their order; when the event does not
\* serialize, add returns the error and the batch is as it was; iterating
\* over the batch yields the events in the order in which they were added.
C29_Step ==
    (call'.fn = "Events::add" /\ call' # call) =>
        LET before == IF call.fn = "Events::add" THEN call.ret[1] ELSE <<>>
            x == call'.args[Len(call'.args)]
            after == call'.ret[1]
            returned == call'.ret[2]
        IN /\ IF serialize(x).kind = "Ok"
              THEN /\ Len(after) = Len(before) + 1
                   /\ \A i \in 1..Len(before) : after[i] = before[i]
                   /\ after[Len(after)] = serialize(x).value
                   /\ returned = Ok
              ELSE /\ after = before
                   /\ returned.kind = "SerializationError"
           /\ call'.ret[3] = after

C29_Add == [][C29_Step]_vars

\* Three calls of add on one batch: the second, given a SystemStarted from
\* before the epoch, returned the error and left the first event alone in
\* the batch; the third event went behind the first.
C29_Witness ==
    /\ call.fn = "Events::add"
    /\ Len(call.args) = 3
    /\ call.args[1] = TodoDeleted(Id(2))
    /\ serialize(call.args[2]).kind = "SerializationError"
    /\ call.args[3] = TodoCreated(Id(1), "milk")
    /\ call.ret[1] = <<serialize(call.args[1]).value, serialize(call.args[3]).value>>
    /\ call.ret[2] = Ok
    /\ call.ret[3] = call.ret[1]

(* --------------------------------- ids ---------------------------------- *)
\* C30: for two Ids of one aggregate type, ==, partial_cmp, cmp and hash
\* give what the same operation gives on the raw ids they wrap.
C30_Delegates ==
    LET A == call.args[1]
        x == call.args[2]
    IN /\ call.fn = "Id::eq" => call.ret[1] = raw_eq(A, x.raw, call.args[3].raw)
       /\ call.fn = "Id::partial_cmp" =>
             call.ret[1] = raw_partial_cmp(A, x.raw, call.args[3].raw)
       /\ call.fn = "Id::cmp" => call.ret[1] = raw_cmp(A, x.raw, call.args[3].raw)
       /\ call.fn = "Id::hash" => call.ret[1] = raw_hash(A, x.raw, call.args[3])

\* Id(2) was compared with Id(1): Greater, as 2 is to 1.
C30_Witness ==
    /\ call.fn = "Id::cmp"
    /\ call.args[2] = Id(2)
    /\ call.args[3] = Id(1)
    /\ call.ret[1] = "Greater"

(* ------------------------- the example's scenarios ---------------------- *)
\* The invocations of the current call that were made on objects of a kind.
Invoked(kind) == SelectSeq(trace, LAMBDA x : x.kind = kind)

\* The events that the command handlers of a call returned, in order.
RECURSIVE EventsOf(_)
EventsOf(entries) ==
    IF entries = <<>> THEN <<>>
    ELSE (IF Head(entries).kind = "command" THEN Head(entries).out ELSE <<>>)
         \o EventsOf(Tail(entries))

\* No todo is stored under the id, and no earlier call created one.
Fresh(id) ==
    /\ id \notin DOMAIN ctx0.todos
    /\ \A i \in 1..Len(call.args) :
          ~(/\ call.args[i].command.type = "todo::CreateTodo"
            /\ call.args[i].command.id = id)

\* C31: a create-todo command for a fresh id, executed through the bus of
\* the example application, returns Ok having emitted exactly one
\* todo-created event, which is persisted (the todo is then in the store, in
\* state New), having run no follow-up command, and having incremented the
\* summary's new counter by exactly one.
C31_CreateTodo ==
    (/\ pc = "done"
     /\ submitted.type = "todo::CreateTodo"
     /\ Fresh(submitted.id)) =>
        /\ result = Ok
        /\ EventsOf(trace) =
              <<serialize(TodoCreated(submitted.id, submitted.name)).value>>
        /\ Len(Invoked("command")) = 1
        /\ TodoContext_get(context, submitted.id) =
              <<Todo(submitted.id, submitted.name, TodoState_New)>>
        /\ context.summary =
              [ctx0.summary EXCEPT !.new = ctx0.summary.new + 1]

Elsewhere(done, id) ==
    \/ done.command.type = "todo::DeleteArchivedTodos"
    \/ done.command.id # id

\* C33: once a todo is created, check-todo and then archive-todo for it,
\* executed through the bus of the example application, each return Ok
\* having emitted one todo-updated event, Done and then Archived (with the
\* date of the Done), and the summary moves by one from new to done, then
\* by one from done to archived.
C33_CheckThenArchive ==
    \A c \in 1..Len(call.args) :
        (/\ pc = "done"
         /\ submitted.type = "todo::ArchiveTodo"
         /\ call.args[c].command.type = "todo::CheckTodo"
         /\ call.args[c].command.id = submitted.id
         /\ \A i \in (c + 1)..Len(call.args) :
               Elsewhere(call.args[i], submitted.id)
         /\ \E n \in 1..(c - 1) :
               /\ call.args[n].command.type = "todo::CreateTodo"
               /\ call.args[n].command.id = submitted.id
               /\ call.args[n].result = Ok
               /\ \A i \in 1..(c - 1) :
                     i # n => Elsewhere(call.args[i], submitted.id)) =>
            LET check == call.args[c]
            IN /\ check.result = Ok
               /\ EventsOf(check.trace) =
                     <<serialize(TodoUpdated_Done(submitted.id,
                                                  check.command.date)).value>>
               /\ check.after.summary =
                     [check.before.summary EXCEPT !.new = @ - 1, !.done = @ + 1]
               /\ result = Ok
               /\ EventsOf(trace) =
                     <<serialize(TodoUpdated_Archived(submitted.id,
                           check.command.date, submitted.date)).value>>
               /\ context.summary =
                     [ctx0.summary EXCEPT !.done = @ - 1, !.archived = @ + 1]

\* The ids of the todos stored in the context in a state.
In(context_, state) ==
    {id \in DOMAIN context_.todos : context_.todos[id].state.state = state}

Replaced(earlier, later) ==
    [n \in DOMAIN earlier \cup DOMAIN later |->
        IF n \in DOMAIN later THEN later[n] ELSE earlier[n]]

\* C35: CommandBus::configure on a bus that already holds registrations
\* merges map by map and not list by list: the command handlers and the
\* writers of the configuration replace the entries of the same names, and
\* for every event name of the configuration the bus's list of handlers is
\* replaced by the configuration's list, so that the earlier handlers of
\* that name are no longer invoked; configure(a).configure(b) is then another
\* bus than configure(a + b) when a and b share an event name.
C35_ConfigureReplaces ==
    call.fn = "configure" =>
        LET a == call.args[1]
            b == call.args[2]
            merged == call.ret[1]
        IN /\ command_handlers = Replaced(a.command_handlers, b.command_handlers)
           /\ event_writers = Replaced(a.event_writers, b.event_writers)
           /\ event_handlers = Replaced(a.event_handlers, b.event_handlers)
           /\ \A i \in 1..Len(trace) :
                 (trace[i].kind = "event"
                     /\ trace[i].name \in DOMAIN b.event_handlers) =>
                        /\ trace[i].h <= Len(b.event_handlers[trace[i].name])
                        /\ trace[i].by = b.event_handlers[trace[i].name][trace[i].h]
           /\ \A i \in 1..Len(trace) :
                 (trace[i].kind = "command"
                     /\ trace[i].name \in DOMAIN b.command_handlers) =>
                        trace[i].by = b.command_handlers[trace[i].name]
           /\ \A i \in 1..Len(trace) :
                 (trace[i].kind = "write"
                     /\ trace[i].name \in DOMAIN b.event_writers) =>
                        trace[i].by = b.event_writers[trace[i].name]
           /\ (DOMAIN a.event_handlers \cap DOMAIN b.event_handlers # {}) =>
                 /\ event_handlers # merged.event_handlers
                 /\ \E n \in DOMAIN a.event_handlers \cap DOMAIN b.event_handlers :
                       merged.event_handlers[n] =
                           a.event_handlers[n] \o b.event_handlers[n]

\* The bus had "g1" for "e1" and was configured again with "g2" for "e1"
\* and "e2": a call that emitted "e1" ran to its end, "g2" was invoked for
\* it and "g1" not at all.
C35_Witness ==
    /\ call.fn = "configure"
    /\ get(call.args[1].event_handlers, "e1") = <<(<<"g1">>)>>
    /\ get(call.args[2].event_handlers, "e1") = <<(<<"g2">>)>>
    /\ call.ret[1].event_handlers["e1"] = <<"g1", "g2">>
    /\ pc = "done"
    /\ result = Ok
    /\ \E i \in 1..Len(trace) :
          trace[i].kind = "event" /\ trace[i].name = "e1" /\ trace[i].by = "g2"
    /\ \A i \in 1..Len(trace) : trace[i].by # "g1"

(* ------------------------- the envelope's name -------------------------- *)
\* The values of T that the stored value v denotes.
Denoted(T, v) == {x \in ValuesOf(T) : Represents(v, x)}

\* C36: SerializedEvent::deserialize::<T>() does not look at the event's
\* name: it returns Ok, with the value denoted, for every T whose schema
\* accepts the stored value, also when T::NAME is not the event's name; a
\* handler generated for T then decodes an event of another name whose
\* value T's schema accepts, and runs its block on it.
C36_NameIgnored ==
    /\ call.fn = "deserialize" =>
          (Denoted(call.args[1], call.args[2].value) # {} =>
              /\ call.ret[1].kind = "Ok"
              /\ call.ret[1].value \in Denoted(call.args[1], call.args[2].value))
    /\ call.fn = "handle" =>
          (Denoted(todo_event_type(call.args[1]), call.args[2].value) # {} =>
              /\ call.ret[1] # {}
              /\ \A o \in call.ret[1] : o.result = Ok)

\* An event named "todo-deleted" that holds the id and the name of a
\* TodoCreated was asked for as a TodoCreated: Ok, with that value.
C36_Witness ==
    /\ call.fn = "deserialize"
    /\ call.args[1] = "TodoCreated"
    /\ call.args[2].name = "todo-deleted"
    /\ call.args[2].name # NAME(call.args[1])
    /\ call.args[2].value = serialize(TodoCreated(Id(2), "milk")).value.value
    /\ call.ret[1] = OkOf(TodoCreated(Id(2), "milk"))

(* ------------------------ the summary and the store --------------------- *)
\* C37: in the example application, after any sequence of execute calls,
\* whether they returned Ok or Err, the summary agrees with the store: new,
\* done and archived are the numbers of stored todos that are New, Done and
\* Archived.
C37_SummaryAgrees ==
    pc \in {"idle", "done"} =>
        /\ context.summary.new = Cardinality(In(context, "New"))
        /\ context.summary.done = Cardinality(In(context, "Done"))
        /\ context.summary.archived = Cardinality(In(context, "Archived"))

(* ----------------------------- no underflow ----------------------------- *)
\* The counters that an invocation of an event handler left one lower than
\* it found them.
Decremented(entry) ==
    {f \in {"new", "done", "archived"} :
        entry.after.summary[f] = entry.before.summary[f] - 1}

Rank(todo) ==
    CASE todo.state.state = "New" -> 1
      [] todo.state.state = "Done" -> 2
      [] todo.state.state = "Archived" -> 3

\* The state in which the context holds the todo, or "none".
StateOf(context_, id) ==
    IF id \in DOMAIN context_.todos THEN context_.todos[id].state.state
    ELSE "none"

=============================================================================
